---------------------------- MODULE Spec2Model ----------------------------
(***************************************************************************)
(* A model of CETEIcean (src/src/CETEI.ts and its helpers): the namespace  *)
(* registrar, the behaviour registry, the tree converter (preprocess), the *)
(* template / decorator engine, activation and the round-trip serializer.  *)
(*                                                                         *)
(* Strings are sequences of one-character strings, so that the character   *)
(* level operations of the code (toLowerCase, replace, startsWith, the     *)
(* regular expressions of template() and rw()) are computed, not assumed.  *)
(* A DOM node is a record [type, ns, name, atts, kids, value, gen]; atts   *)
(* is the ordered attribute list of the element, kids the ordered child    *)
(* list, gen the number of the activation that made the node (0 for the    *)
(* nodes the converter makes).                                             *)
(***************************************************************************)
EXTENDS Integers, Sequences, FiniteSets, TLC

(***************************************************************************)
(* Strings.                                                                *)
(***************************************************************************)
UPPER == <<"A","B","C","D","E","F","G","H","I","J","K","L","M",
           "N","O","P","Q","R","S","T","U","V","W","X","Y","Z">>
LOWER == <<"a","b","c","d","e","f","g","h","i","j","k","l","m",
           "n","o","p","q","r","s","t","u","v","w","x","y","z">>
DIGITS == <<"0","1","2","3","4","5","6","7","8","9">>

Range(s) == { s[i] : i \in DOMAIN s }

toLowerChar(c) ==
    IF c \in Range(UPPER)
    THEN LOWER[CHOOSE i \in DOMAIN UPPER : UPPER[i] = c]
    ELSE c

toLowerCase(s) == [i \in DOMAIN s |-> toLowerChar(s[i])]

startsWith(s, p) == Len(s) >= Len(p) /\ SubSeq(s, 1, Len(p)) = p

\* s.indexOf(p): the 1-based position of the first occurrence of p, 0 if none
indexOf(s, p) ==
    LET hits == { i \in 1..(Len(s) - Len(p) + 1) : SubSeq(s, i, i + Len(p) - 1) = p }
    IN IF hits = {} THEN 0 ELSE CHOOSE i \in hits : \A j \in hits : i <= j

\* s.replace(p, r) with a string pattern: the first occurrence only
replaceFirst(s, p, r) ==
    LET i == indexOf(s, p)
    IN IF i = 0 THEN s
       ELSE SubSeq(s, 1, i - 1) \o r \o SubSeq(s, i + Len(p), Len(s))

\* s.replace(/c/g, "") for a one-character pattern
removeAll(s, c) == SelectSeq(s, LAMBDA x : x # c)

RECURSIVE join(_, _)
join(parts, sep) ==
    IF parts = <<>> THEN <<>>
    ELSE IF Len(parts) = 1 THEN parts[1]
    ELSE parts[1] \o sep \o join(Tail(parts), sep)

RECURSIVE split(_, _)
\* s.split(c) for a one-character separator
split(s, c) ==
    LET i == indexOf(s, <<c>>)
    IN IF i = 0 THEN <<s>>
       ELSE <<SubSeq(s, 1, i - 1)>> \o split(SubSeq(s, i + 1, Len(s)), c)

\* String(n) for the small numbers the model meets
numStr(n) == IF n < 10 THEN <<DIGITS[n + 1]>>
             ELSE <<DIGITS[(n \div 10) + 1], DIGITS[(n % 10) + 1]>>


(***************************************************************************)
(* String literals of the source, as character sequences.                  *)
(***************************************************************************)
s_ns == <<"n","s">>
s_colon == <<":">>
s_dash == <<"-">>
s_space == <<" ">>
s_hash == <<"#">>
s_undefined == <<"u","n","d","e","f","i","n","e","d">>
s_xmlns == <<"x","m","l","n","s">>
s_role == <<"r","o","l","e">>
s_xml_id == <<"x","m","l",":","i","d">>
s_xml_lang == <<"x","m","l",":","l","a","n","g">>
s_rendition == <<"r","e","n","d","i","t","i","o","n">>
s_id == <<"i","d">>
s_lang == <<"l","a","n","g">>
s_class == <<"c","l","a","s","s">>
s_tei_role == <<"t","e","i","-","r","o","l","e">>
s_tei_ == <<"t","e","i","-">>
s_data_ == <<"d","a","t","a","-">>
s_aria_ == <<"a","r","i","a","-">>
s_data_xmlns == <<"d","a","t","a","-","x","m","l","n","s">>
s_data_origname == <<"d","a","t","a","-","o","r","i","g","n","a","m","e">>
s_data_origatts == <<"d","a","t","a","-","o","r","i","g","a","t","t","s">>
s_data_empty == <<"d","a","t","a","-","e","m","p","t","y">>
s_data_level == <<"d","a","t","a","-","l","e","v","e","l">>
s_data_processed == <<"d","a","t","a","-","p","r","o","c","e","s","s","e","d">>
s_data_original == <<"d","a","t","a","-","o","r","i","g","i","n","a","l">>
s_data_origid == <<"d","a","t","a","-","o","r","i","g","i","d">>
s_data_before == <<"d","a","t","a","-","b","e","f","o","r","e">>
s_data_after == <<"d","a","t","a","-","a","f","t","e","r">>
s_aria_label == <<"a","r","i","a","-","l","a","b","e","l">>
s_hidden == <<"h","i","d","d","e","n">>
s_none == <<"n","o","n","e">>
s_main == <<"m","a","i","n">>
s_region == <<"r","e","g","i","o","n">>
s_n == <<"n">>
s_TEI == <<"T","E","I">>
s_body == <<"b","o","d","y">>
s_front == <<"f","r","o","n","t">>
s_back == <<"b","a","c","k">>
s_div == <<"d","i","v">>
s_head == <<"h","e","a","d">>
s_p == <<"p">>
s_note == <<"n","o","t","e">>
s_ref == <<"r","e","f">>
s_ptr == <<"p","t","r">>
s_target == <<"t","a","r","g","e","t">>
s_type == <<"t","y","p","e">>
s_cetei_original == <<"c","e","t","e","i","-","o","r","i","g","i","n","a","l">>
s_cetei_content == <<"c","e","t","e","i","-","c","o","n","t","e","n","t">>
s_wildcard == <<"_">>
nsTEI == <<"h","t","t","p",":","/","/","w","w","w",".","t","e","i","-",
        "c",".","o","r","g","/","n","s","/","1",".","0">>
nsEG == <<"h","t","t","p",":","/","/","w","w","w",".","t","e","i","-",
        "c",".","o","r","g","/","n","s","/","E","x","a","m","p","l",
        "e","s">>
nsRNG == <<"h","t","t","p",":","/","/","r","e","l","a","x","n","g",".",
        "o","r","g","/","n","s","/","s","t","r","u","c","t","u","r",
        "e","/","1",".","0">>
nsA == <<"u","r","n",":","a">>
nsB == <<"u","r","n",":","b">>
s_tei == <<"t","e","i">>
s_teieg == <<"t","e","i","e","g">>
s_rng == <<"r","n","g">>
s_x == <<"x">>
s_y == <<"y">>

(***************************************************************************)
(* DOM nodes.                                                              *)
(***************************************************************************)
Elt(ns, name, atts, kids) ==
    [type |-> "element", ns |-> ns, name |-> name, atts |-> atts,
     kids |-> kids, value |-> <<>>, gen |-> 0]
Txt(v) ==
    [type |-> "text", ns |-> <<>>, name |-> <<>>, atts |-> <<>>,
     kids |-> <<>>, value |-> v, gen |-> 0]
Comment(v) ==
    [type |-> "comment", ns |-> <<>>, name |-> <<>>, atts |-> <<>>,
     kids |-> <<>>, value |-> v, gen |-> 0]

\* a DocumentFragment
Fragment(kids) ==
    [type |-> "fragment", ns |-> <<>>, name |-> <<>>, atts |-> <<>>,
     kids |-> kids, value |-> <<>>, gen |-> 0]

isElement(n) == n.type = "element"

RECURSIVE flatten(_)
flatten(ss) == IF ss = <<>> THEN <<>> ELSE Head(ss) \o flatten(Tail(ss))

hasAttribute(e, n) == \E i \in DOMAIN e.atts : e.atts[i][1] = n
\* getAttribute: the value, or the empty string where the code reads "" for null
getAttribute(e, n) ==
    IF hasAttribute(e, n)
    THEN e.atts[CHOOSE i \in DOMAIN e.atts : e.atts[i][1] = n][2]
    ELSE <<>>
setAttribute(e, n, v) ==
    IF hasAttribute(e, n)
    THEN [e EXCEPT !.atts = [i \in DOMAIN e.atts |->
                               IF e.atts[i][1] = n THEN <<n, v>> ELSE e.atts[i]]]
    ELSE [e EXCEPT !.atts = Append(e.atts, <<n, v>>)]
removeAttribute(e, n) ==
    [e EXCEPT !.atts = SelectSeq(e.atts, LAMBDA a : a[1] # n)]
getAttributeNames(e) == [i \in DOMAIN e.atts |-> e.atts[i][1]]
\* An HTML element in an HTML document lower-cases the attribute name
setAttributeHTML(e, n, v) == setAttribute(e, toLowerCase(n), v)
\* document.createElement(name) of an HTML document lower-cases the name
createElement(name) == Elt(<<>>, toLowerCase(name), <<>>, <<>>)
appendChild(e, c) == [e EXCEPT !.kids = Append(e.kids, c)]

RECURSIVE querySelectorAllStar(_)
\* e.querySelectorAll("*"): the element descendants of e in document order
querySelectorAllStar(e) ==
    flatten([i \in DOMAIN e.kids |->
               IF isElement(e.kids[i])
               THEN <<e.kids[i]>> \o querySelectorAllStar(e.kids[i])
               ELSE <<>>])

\* the child nodes kids with node in the place of the i-th
replaceChild(kids, i, node) ==
    SubSeq(kids, 1, i - 1) \o <<node>> \o SubSeq(kids, i + 1, Len(kids))

childElements(e) == SelectSeq(e.kids, isElement)
\* XML_dom.documentElement; a document is a record [kids]
documentElement(doc) == childElements(doc)[1]

(***************************************************************************)
(* NamespaceMap: a Map, namespace URI -> prefix, in insertion order.       *)
(***************************************************************************)
nsHas(m, ns) == \E i \in DOMAIN m : m[i][1] = ns
nsGet(m, ns) == m[CHOOSE i \in DOMAIN m : m[i][1] = ns][2]
nsSet(m, ns, p) ==
    IF nsHas(m, ns)
    THEN [i \in DOMAIN m |-> IF m[i][1] = ns THEN <<ns, p>> ELSE m[i]]
    ELSE Append(m, <<ns, p>>)
nsDelete(m, ns) == SelectSeq(m, LAMBDA e : e[1] # ns)
nsValues(m) == [i \in DOMAIN m |-> m[i][2]]

\* Set.add on an insertion-ordered Set
setAdd(s, x) == IF x \in Range(s) THEN s ELSE Append(s, x)

(***************************************************************************)
(* dom.ts: learnElementNames.                                              *)
(***************************************************************************)
\* qname(e) naming the namespace of every element anew
qnameStepRenames(st, e) ==
    [m |-> nsSet(st.m, e.ns, s_ns \o numStr(st.i)), i |-> st.i + 1,
     els |-> setAdd(st.els, s_ns \o numStr(st.i) \o s_colon \o e.name)]

\* qname(e) with its side effects on the map and on the counter i
qnameStep(st, e) ==
    LET fresh == ~nsHas(st.m, e.ns)
        m2 == IF fresh THEN nsSet(st.m, e.ns, s_ns \o numStr(st.i)) ELSE st.m
    IN [m |-> m2, i |-> IF fresh THEN st.i + 1 ELSE st.i,
        els |-> setAdd(st.els, nsGet(m2, e.ns) \o s_colon \o e.name)]

RECURSIVE qnameAll(_, _)
qnameAll(st, es) ==
    IF es = <<>> THEN st ELSE qnameAll(qnameStep(st, Head(es)), Tail(es))

\* The order in which learnElementNames calls qname: the descendants of the
\* root in document order, then the root itself (els.add(qname(root)))
learnOrder(XML_dom) ==
    LET root == documentElement(XML_dom)
    IN querySelectorAllStar(root) \o <<root>>

\* learnElementNames(XML_dom, namespaces): [m: the map after, els: the Set returned]
learnElementNames(XML_dom, namespaces) ==
    IF childElements(XML_dom) = <<>>
    THEN [m |-> namespaces, i |-> 1, els |-> <<>>]
    ELSE qnameAll([m |-> namespaces, i |-> 1, els |-> <<>>], learnOrder(XML_dom))

(***************************************************************************)
(* behaviors.ts.  A BehaviorsMap is [namespaces: <<prefix, uri>> pairs in  *)
(* key order, entries: <<prefix, <<element, definition>> pairs>> pairs].   *)
(* this.behaviors is a function from "prefix:element" to a definition.     *)
(***************************************************************************)
bSet(b, k, d) == [x \in (DOMAIN b) \cup {k} |-> IF x = k THEN d ELSE b[x]]
bDelete(b, k) == [x \in (DOMAIN b) \ {k} |-> b[x]]

RECURSIVE addDeclsNoPrefixCheck(_, _)
addDeclsNoPrefixCheck(m, decls) ==
    IF decls = <<>> THEN m
    ELSE LET prefix == Head(decls)[1]
             namespaceURI == Head(decls)[2]
         IN addDeclsNoPrefixCheck(
              IF ~nsHas(m, namespaceURI) THEN nsSet(m, namespaceURI, prefix) ELSE m,
              Tail(decls))

RECURSIVE addBehaviorsNamespaces(_, _)
\* behaviors.ts 9-16: the namespace declarations of a bulk registration
addBehaviorsNamespaces(m, decls) ==
    IF decls = <<>> THEN m
    ELSE LET prefix == Head(decls)[1]
             namespaceURI == Head(decls)[2]
         IN addBehaviorsNamespaces(
              IF ~nsHas(m, namespaceURI) /\ prefix \notin Range(nsValues(m))
              THEN nsSet(m, namespaceURI, prefix) ELSE m,
              Tail(decls))

RECURSIVE installEntriesIfAbsent(_, _, _)
\* the entries installed only where the registry holds none
installEntriesIfAbsent(b, prefix, entries) ==
    IF entries = <<>> THEN b
    ELSE installEntriesIfAbsent(
           IF prefix \o s_colon \o Head(entries)[1] \in DOMAIN b THEN b
           ELSE bSet(b, prefix \o s_colon \o Head(entries)[1], Head(entries)[2]),
           prefix, Tail(entries))

RECURSIVE installEntries(_, _, _)
\* behaviors.ts 19-23: this.behaviors[prefix:elementName] = entries[elementName]
installEntries(b, prefix, entries) ==
    IF entries = <<>> THEN b
    ELSE installEntries(bSet(b, prefix \o s_colon \o Head(entries)[1], Head(entries)[2]),
                        prefix, Tail(entries))

\* bhvs[prefix]: the entries a BehaviorsMap holds for a prefix, <<>> if none
bhvsEntries(bhvs, prefix) ==
    IF \E i \in DOMAIN bhvs.entries : bhvs.entries[i][1] = prefix
    THEN bhvs.entries[CHOOSE i \in DOMAIN bhvs.entries : bhvs.entries[i][1] = prefix][2]
    ELSE <<>>

RECURSIVE addBehaviorsEntries(_, _, _)
\* behaviors.ts 17-24: for each prefix of the map, install bhvs[prefix]
addBehaviorsEntries(b, prefixes, bhvs) ==
    IF prefixes = <<>> THEN b
    ELSE addBehaviorsEntries(installEntries(b, Head(prefixes), bhvsEntries(bhvs, Head(prefixes))),
                             Tail(prefixes), bhvs)

\* addBehaviors(bhvs): [namespaces, behaviors] after the call
addBehaviors(m, b, bhvs) ==
    LET m2 == addBehaviorsNamespaces(m, bhvs.namespaces)
    IN [namespaces |-> m2, behaviors |-> addBehaviorsEntries(b, nsValues(m2), bhvs)]

RECURSIVE declLoop(_, _)
\* behaviors.ts 47-53 (and 67-73): [m: the map, p: the prefix used for the key]
declLoop(st, decls) ==
    IF decls = <<>> THEN st
    ELSE LET prefix == Head(decls)[1]
             namespaceURI == Head(decls)[2]
         IN declLoop([m |-> IF ~nsHas(st.m, namespaceURI)
                            THEN nsSet(st.m, namespaceURI, prefix) ELSE st.m,
                      p |-> prefix],
                     Tail(decls))

\* ns is [kind |-> "decl", decl |-> pairs] or [kind |-> "prefix", prefix |-> p]
nsArg(m, ns) ==
    IF ns.kind = "decl" THEN declLoop([m |-> m, p |-> s_undefined], ns.decl)
    ELSE [m |-> m, p |-> ns.prefix]

addBehavior(m, b, ns, element, def) ==
    LET st == nsArg(m, ns)
    IN [namespaces |-> st.m, behaviors |-> bSet(b, st.p \o s_colon \o element, def)]

removeBehavior(m, b, ns, element) ==
    LET st == nsArg(m, ns)
    IN [namespaces |-> st.m, behaviors |-> bDelete(b, st.p \o s_colon \o element)]

unsetNamespaceNoop(m, ns) == m

\* CETEI.unsetNamespace
unsetNamespace(m, ns) == nsDelete(m, ns)

(***************************************************************************)
(* CETEI.preprocess: convertEl.                                            *)
(***************************************************************************)
\* CETEI.ts 144-164: one turn of the attribute loop
copyAtt(newElement, att) ==
    LET name == att[1]
        value == att[2]
        e1 == IF name = s_xmlns THEN setAttributeHTML(newElement, s_data_xmlns, value)
              ELSE IF name # s_role THEN setAttributeHTML(newElement, name, value)
              ELSE newElement
        e2 == IF name = s_xml_id THEN setAttributeHTML(e1, s_id, value) ELSE e1
        e3 == IF name = s_xml_lang THEN setAttributeHTML(e2, s_lang, value) ELSE e2
        e4 == IF name = s_rendition
              THEN setAttributeHTML(e3, s_class, removeAll(value, "#")) ELSE e3
        e5 == IF name = s_role THEN setAttributeHTML(e4, s_tei_role, value) ELSE e4
    IN e5

RECURSIVE copyAtts(_, _)
copyAtts(newElement, atts) ==
    IF atts = <<>> THEN newElement
    ELSE copyAtts(copyAtt(newElement, Head(atts)), Tail(atts))

\* CETEI.ts 176-192: the number of ancestors that have a TEI head child
getLevel(ancestors) ==
    Cardinality({ i \in DOMAIN ancestors :
        \E k \in DOMAIN ancestors[i].kids :
            /\ isElement(ancestors[i].kids[k])
            /\ toLowerCase(ancestors[i].kids[k].name) = s_head
            /\ ancestors[i].kids[k].ns = nsTEI })

\* CETEI.ts 232-239: ARIA roles of the landmark elements
landmarks(newElement, el) ==
    LET e1 == IF el.name = s_TEI THEN setAttributeHTML(newElement, s_role, s_main)
              ELSE newElement
    IN IF el.name \in {s_body, s_front, s_back, s_div}
       THEN setAttributeHTML(
              setAttributeHTML(e1, s_role, s_region), s_aria_label,
              IF getAttribute(el, s_xml_id) # <<>> THEN getAttribute(el, s_xml_id)
              ELSE IF getAttribute(el, s_n) # <<>> THEN getAttribute(el, s_n)
              ELSE el.name)
       ELSE e1

\* CETEI.ts 136-141: the converted element before its attributes are copied
newElementFor(el, namespaces) ==
    IF nsHas(namespaces, el.ns)
    THEN createElement(nsGet(namespaces, el.ns) \o s_dash \o toLowerCase(el.name))
    ELSE [el EXCEPT !.kids = <<>>, !.atts = <<>>]

RECURSIVE convertEl(_, _, _)
RECURSIVE convertKids(_, _, _, _)
\* CETEI.ts 131-251; ancestors is the parentElement chain of el
convertEl(el, ancestors, namespaces) ==
    LET e0 == newElementFor(el, namespaces)
        e1 == copyAtts(e0, el.atts)
        e2 == setAttributeHTML(e1, s_data_origname, el.name)
        e3 == IF el.atts # <<>>
              THEN setAttributeHTML(e2, s_data_origatts, join(getAttributeNames(el), s_space))
              ELSE e2
        e4 == IF Len(el.kids) = 0 THEN setAttributeHTML(e3, s_data_empty, <<>>) ELSE e3
        e5 == IF el.name = s_head /\ el.ns = nsTEI
              THEN setAttributeHTML(e4, s_data_level, numStr(getLevel(ancestors)))
              ELSE e4
        e6 == landmarks(e5, el)
    IN [e6 EXCEPT !.kids = e6.kids \o convertKids(el.kids, el, ancestors, namespaces)]

convertKids(kids, el, ancestors, namespaces) ==
    IF kids = <<>> THEN <<>>
    ELSE <<IF isElement(Head(kids))
           THEN convertEl(Head(kids), <<el>> \o ancestors, namespaces)
           ELSE Head(kids)>>
         \o convertKids(Tail(kids), el, ancestors, namespaces)

\* CETEI.ts 253-264: the fragment of the converted top-level nodes
convertTop(XML_dom, namespaces) ==
    Fragment([i \in DOMAIN XML_dom.kids |->
                IF isElement(XML_dom.kids[i])
                THEN convertEl(XML_dom.kids[i], <<>>, namespaces)
                ELSE XML_dom.kids[i]])

\* CETEI.preprocess: [namespaces, els, dom] after the call
preprocess(XML_dom, namespaces) ==
    LET learnt == learnElementNames(XML_dom, namespaces)
    IN [namespaces |-> learnt.m, els |-> learnt.els,
        dom |-> convertTop(XML_dom, learnt.m)]

\* The calls preprocess makes on the converted nodes while it converts, in call
\* order; "at" is the path of the source node:
\*   [k |-> "appendChild", at]: the converted node was appended to its parent;
\*   [k |-> "perElementFn", at, newElement, el]: perElementFn(newElement, el),
\*     newElement as it was at the call.
appendEntry(path) == [k |-> "appendChild", at |-> path]
perElementEntry(newElement, el, path) ==
    [k |-> "perElementFn", at |-> path, newElement |-> newElement, el |-> el]

RECURSIVE convertCalls(_, _, _, _, _)
RECURSIVE convertKidsCalls(_, _, _, _, _, _, _)
\* perElementFn called on the new element before its child nodes are converted
convertCallsCallbackFirst(el, path, ancestors, namespaces, perElementFn) ==
    (IF perElementFn
     THEN << perElementEntry([convertEl(el, ancestors, namespaces) EXCEPT !.kids = <<>>],
                             el, path) >>
     ELSE <<>>)
    \o convertKidsCalls(el.kids, 1, el, path, ancestors, namespaces, perElementFn)

\* CETEI.ts 240-250: the child loop of convertEl, then perElementFn
convertCalls(el, path, ancestors, namespaces, perElementFn) ==
    convertKidsCalls(el.kids, 1, el, path, ancestors, namespaces, perElementFn)
    \o (IF perElementFn
        THEN << perElementEntry(convertEl(el, ancestors, namespaces), el, path) >>
        ELSE <<>>)

\* CETEI.ts 240-246: the child nodes of el from the i-th on
convertKidsCalls(kids, i, el, path, ancestors, namespaces, perElementFn) ==
    IF i > Len(kids) THEN <<>>
    ELSE (IF isElement(kids[i])
          THEN convertCalls(kids[i], Append(path, i), <<el>> \o ancestors, namespaces,
                            perElementFn)
          ELSE <<>>)
         \o << appendEntry(Append(path, i)) >>
         \o convertKidsCalls(kids, i + 1, el, path, ancestors, namespaces, perElementFn)

\* CETEI.ts 253-264 with perElementFn: the calls of one preprocess
preprocessCalls(XML_dom, namespaces, perElementFn) ==
    flatten([i \in DOMAIN XML_dom.kids |->
               (IF isElement(XML_dom.kids[i])
                THEN convertCalls(XML_dom.kids[i], <<i>>, <<>>,
                                  learnElementNames(XML_dom, namespaces).m, perElementFn)
                ELSE <<>>)
               \o << appendEntry(<<i>>) >>])

(***************************************************************************)
(* Behaviour definitions (types.ts BehaviorDefinition): a function, named  *)
(* by fn; a template of one or two strings; or a list of <<selector,       *)
(* definition>> rules.                                                     *)
(***************************************************************************)
FnDef(f) == [kind |-> "function", fn |-> f]
TplDef(strs) == [kind |-> "template", strings |-> strs]
RulesDef(rs) == [kind |-> "rules", rules |-> rs]

t_pre == <<"<","p","r","e",">">>
t_pre_close == <<"<","/","p","r","e",">">>
t_ptr == <<"<","a"," ","h","r","e","f","=","\"","$","r","w","@","t","a","r",
       "g","e","t","\"",">","$","@","t","a","r","g","e","t","<","/","a",
       ">">>
t_a_open == <<"<","a"," ","h","r","e","f","=","\"","$","r","w","@","t","a","r",
       "g","e","t","\"",">">>
t_a_close == <<"<","/","a",">">>
t_lparen == <<"(">>
t_rparen == <<")">>
sel_target == <<"[","t","a","r","g","e","t","]">>
sel_gloss == <<"[","t","y","p","e","=","g","l","o","s","s","]">>
sel_place_end == <<"[","p","l","a","c","e","=","e","n","d","]">>
sel_title == <<"t","e","i","-","t","i","t","l","e","s","t","m","t",">","t","e",
       "i","-","t","i","t","l","e">>
s_eg == <<"e","g">>
s_graphic == <<"g","r","a","p","h","i","c">>
s_list == <<"l","i","s","t">>
s_teiHeader == <<"t","e","i","H","e","a","d","e","r">>
s_title == <<"t","i","t","l","e">>
s_egXML == <<"e","g","X","M","L">>

\* defaultBehaviors.ts
defaultBehaviors ==
    [namespaces |-> << <<s_tei, nsTEI>>, <<s_teieg, nsEG>>, <<s_rng, nsRNG>> >>,
     entries |-> <<
       <<s_tei, <<
          <<s_eg, TplDef(<<t_pre, t_pre_close>>)>>,
          <<s_ptr, TplDef(<<t_ptr>>)>>,
          <<s_ref, RulesDef(<< <<sel_target, TplDef(<<t_a_open, t_a_close>>)>> >>)>>,
          <<s_graphic, FnDef("graphic")>>,
          <<s_list, RulesDef(<< <<sel_gloss, FnDef("glossList")>> >>)>>,
          <<s_note, RulesDef(<< <<sel_place_end, FnDef("endNote")>>,
                                <<s_wildcard, TplDef(<<t_lparen, t_rparen>>)>> >>)>>,
          <<s_teiHeader, FnDef("teiHeader")>>,
          <<s_title, RulesDef(<< <<sel_title, FnDef("htmlTitle")>> >>)>> >> >>,
       <<s_teieg, << <<s_egXML, FnDef("egXML")>> >> >> >>]

(***************************************************************************)
(* utilities.ts: first, rw, normalizeURI, tagName.                         *)
(***************************************************************************)
isSpaceChar(c) == c \in {" ", "\t", "\n", "\r"}

RECURSIVE trimStart(_)
trimStart(s) == IF s # <<>> /\ isSpaceChar(Head(s)) THEN trimStart(Tail(s)) ELSE s
RECURSIVE trimEnd(_)
trimEnd(s) ==
    IF s # <<>> /\ isSpaceChar(s[Len(s)]) THEN trimEnd(SubSeq(s, 1, Len(s) - 1)) ELSE s
trim(s) == trimEnd(trimStart(s))

\* urls.replace(/ .*$/, ""): cut at the first space that only non-newline
\* characters follow up to the end
first(urls) ==
    LET cuts == { i \in DOMAIN urls :
                    urls[i] = " " /\ \A j \in (i + 1)..Len(urls) : urls[j] \notin {"\n", "\r"} }
    IN IF cuts = {} THEN urls
       ELSE SubSeq(urls, 1, (CHOOSE i \in cuts : \A j \in cuts : i <= j) - 1)

s_http == <<"h","t","t","p">>
s_mailto == <<"m","a","i","l","t","o">>
s_file == <<"f","i","l","e">>
s_slash == <<"/">>

\* url.trim().match(/^(?:http|mailto|file|\/|#).*$/)
isAbsoluteOrFragment(url) ==
    /\ \E p \in {s_http, s_mailto, s_file, s_slash, s_hash} : startsWith(trim(url), p)
    /\ \A i \in DOMAIN trim(url) : trim(url)[i] \notin {"\n", "\r"}

\* utilities.ts 181-186, bound to the converter (this.base)
rw(base, url) ==
    IF ~isAbsoluteOrFragment(url) THEN base \o first(trim(url)) ELSE url

\* utilities.ts 133-137, called with this = this.utilities
normalizeURI(base, urls) == rw(base, first(urls))

\* utilities.ts 368-374: the condition (name.includes(":"), 1) is always true
tagName(name) == toLowerCase(replaceFirst(name, s_colon, s_dash))

(***************************************************************************)
(* CETEI.template: attribute interpolation.                                *)
(***************************************************************************)
isLetter(c) == c \in Range(UPPER) \cup Range(LOWER)
isWordChar(c) == isLetter(c) \/ c \in Range(DIGITS) \/ c = "_"
isAttrChar(c) == isLetter(c) \/ c = ":"

RECURSIVE runWord(_, _)
\* the length of the longest run of \w characters of s from position i
runWord(s, i) == IF i <= Len(s) /\ isWordChar(s[i]) THEN 1 + runWord(s, i + 1) ELSE 0
RECURSIVE runAttr(_, _)
runAttr(s, i) == IF i <= Len(s) /\ isAttrChar(s[i]) THEN 1 + runAttr(s, i + 1) ELSE 0

\* whether /\$(\w*)@([a-zA-Z:]+)/ matches s at position i: \w* takes the whole
\* run of word characters, since "@" is none
matchesAt(s, i) ==
    /\ i <= Len(s) /\ s[i] = "$"
    /\ LET j == i + 1 + runWord(s, i + 1)
       IN j <= Len(s) /\ s[j] = "@" /\ runAttr(s, j + 1) >= 1

\* the match at i: [0]: the text, [1]: the utility name, [2]: the attribute name
matchAt(s, i) ==
    LET j == i + 1 + runWord(s, i + 1)
        k == j + runAttr(s, j + 1)
    IN [text |-> SubSeq(s, i, k), util |-> SubSeq(s, i + 1, j - 1),
        att |-> SubSeq(s, j + 1, k), end |-> k]

\* re.exec from lastIndex: the position of the leftmost match at or after from, 0 if none
nextMatch(s, from) ==
    LET hits == { i \in from..Len(s) : matchesAt(s, i) }
    IN IF hits = {} THEN 0 ELSE CHOOSE i \in hits : \A j \in hits : i <= j

\* str.search(re): the 0-based index of the first match, -1 if none
search(s) == nextMatch(s, 1) - 1

\* this.utilities[utilName] as a function: the exported utilities modelled here;
\* utilities.dom is a property that is no function, other names are undefined
UtilityFunctions == {<<"r","w">>, <<"f","i","r","s","t">>,
                     <<"n","o","r","m","a","l","i","z","e","U","R","I">>,
                     <<"t","a","g","N","a","m","e">>}

callUtility(utilName, base, value) ==
    IF utilName = <<"r","w">> THEN rw(base, value)
    ELSE IF utilName = <<"f","i","r","s","t">> THEN first(value)
    ELSE IF utilName = <<"t","a","g","N","a","m","e">> THEN tagName(value)
    ELSE normalizeURI(base, value)

\* an HTML element looks attributes up by their lower-cased name
hasAttributeHTML(e, n) == hasAttribute(e, toLowerCase(n))
getAttributeHTML(e, n) == getAttribute(e, toLowerCase(n))

\* CETEI.ts 501-515: the replacement for one match
replacementFor(m, elt, base) ==
    IF hasAttributeHTML(elt, m.att)
    THEN IF m.util # <<>> /\ m.util \in UtilityFunctions
         THEN callUtility(m.util, base, getAttributeHTML(elt, m.att))
         ELSE getAttributeHTML(elt, m.att)
    ELSE <<>>

RECURSIVE templateLoop(_, _, _, _, _)
\* CETEI.ts 500-516: the matches of re in str, each replaced in result
templateLoop(str, from, result, elt, base) ==
    LET i == nextMatch(str, from)
    IN IF i = 0 THEN result
       ELSE LET m == matchAt(str, i)
            IN templateLoop(str, m.end + 1,
                            replaceFirst(result, m.text, replacementFor(m, elt, base)),
                            elt, base)

\* CETEI.ts 495-519: str.search(...) is 0, hence false, for a match at index 0
template(str, elt, base) ==
    IF search(str) # 0 THEN templateLoop(str, 1, str, elt, base) ELSE str

(***************************************************************************)
(* The HTML parser behind innerHTML, on the markup the templates use:      *)
(* text, start tags with double-quoted attribute values, end tags.         *)
(***************************************************************************)
\* The nodes a behaviour creates are stamped with the number of the
\* activation that created them: the static list of querySelectorAll in
\* fallback holds the nodes that existed before its loop began.
RECURSIVE stamp(_, _)
stamp(n, g) ==
    [n EXCEPT !.gen = g, !.kids = [i \in DOMAIN n.kids |-> stamp(n.kids[i], g)]]

VoidElements == {<<"i","m","g">>, <<"b","r">>, <<"h","r">>}

TextToken(v) == [t |-> "text", name |-> <<>>, atts |-> <<>>, node |-> Txt(v)]
NodeToken(n) == [t |-> "node", name |-> <<>>, atts |-> <<>>, node |-> n]
OpenToken(name, atts) == [t |-> "open", name |-> name, atts |-> atts, node |-> Txt(<<>>)]
CloseToken(name) == [t |-> "close", name |-> name, atts |-> <<>>, node |-> Txt(<<>>)]

\* the position of the first c in s at or after from, 0 if none
indexFrom(s, c, from) ==
    LET hits == { i \in from..Len(s) : s[i] = c }
    IN IF hits = {} THEN 0 ELSE CHOOSE i \in hits : \A j \in hits : i <= j

RECURSIVE parseAtts(_)
\* the attributes of a start tag: name="value" pairs
parseAtts(s) ==
    LET t == trimStart(s)
        eq == indexFrom(t, "=", 1)
        sp == indexFrom(t, " ", 1)
    IN IF t = <<>> \/ t = <<"/">> THEN <<>>
       ELSE IF eq = 0 \/ (sp # 0 /\ sp < eq)
       THEN \* an attribute without a value
            LET e == IF sp = 0 THEN Len(t) ELSE sp - 1
            IN << <<toLowerCase(SubSeq(t, 1, e)), <<>> >> >>
               \o parseAtts(SubSeq(t, e + 1, Len(t)))
       ELSE IF eq < Len(t) /\ t[eq + 1] = "\""
       THEN LET q == indexFrom(t, "\"", eq + 2)
                e == IF q = 0 THEN Len(t) + 1 ELSE q
            IN << <<toLowerCase(SubSeq(t, 1, eq - 1)), SubSeq(t, eq + 2, e - 1)>> >>
               \o parseAtts(SubSeq(t, e + 1, Len(t)))
       ELSE LET s2 == indexFrom(t, " ", eq + 1)
                e == IF s2 = 0 THEN Len(t) + 1 ELSE s2
            IN << <<toLowerCase(SubSeq(t, 1, eq - 1)), SubSeq(t, eq + 1, e - 1)>> >>
               \o parseAtts(SubSeq(t, e, Len(t)))

\* the token of the tag whose text between "<" and ">" is body
tagToken(body) ==
    IF Head(body) = "/" THEN CloseToken(toLowerCase(trim(Tail(body))))
    ELSE LET sp == indexFrom(body, " ", 1)
             nameEnd == IF sp = 0 THEN Len(body) ELSE sp - 1
             name == SubSeq(body, 1, nameEnd)
         IN OpenToken(toLowerCase(IF name # <<>> /\ name[Len(name)] = "/"
                                  THEN SubSeq(name, 1, Len(name) - 1) ELSE name),
                      parseAtts(SubSeq(body, nameEnd + 1, Len(body))))

RECURSIVE tokenize(_)
\* the tokens of a markup string
tokenize(s) ==
    IF s = <<>> THEN <<>>
    ELSE LET gt == indexFrom(s, ">", 2)
             lt == indexFrom(s, "<", 2)
         IN IF Head(s) = "<" /\ gt > 2 /\ (isLetter(s[2]) \/ s[2] = "/")
            THEN <<tagToken(SubSeq(s, 2, gt - 1))>> \o tokenize(SubSeq(s, gt + 1, Len(s)))
            ELSE LET e == IF lt = 0 THEN Len(s) ELSE lt - 1
                 IN <<TextToken(SubSeq(s, 1, e))>> \o tokenize(SubSeq(s, e + 1, Len(s)))

\* the tokens of nodes that are serialized and parsed again
nodeTokens(nodes) == [i \in DOMAIN nodes |-> NodeToken(nodes[i])]

\* appending a parsed node: the parser makes one text node of adjacent text
addParsed(kids, n) ==
    IF n.type = "text" /\ n.value = <<>> THEN kids
    ELSE IF n.type = "text" /\ kids # <<>> /\ kids[Len(kids)].type = "text"
    THEN [kids EXCEPT ![Len(kids)].value = @ \o n.value]
    ELSE Append(kids, n)

RECURSIVE normalizeNode(_)
RECURSIVE normalizeKids(_, _)
\* a node as it is after its markup is parsed again
normalizeNode(n) == [n EXCEPT !.kids = normalizeKids(n.kids, <<>>)]
normalizeKids(kids, acc) ==
    IF kids = <<>> THEN acc
    ELSE normalizeKids(Tail(kids), addParsed(acc, normalizeNode(Head(kids))))

\* the stack of open elements: frames [name, atts, kids], the first frame is the root
closeTop(stack) ==
    LET n == Len(stack)
        top == stack[n]
    IN [SubSeq(stack, 1, n - 1) EXCEPT
          ![n - 1].kids = addParsed(@, Elt(<<>>, top.name, top.atts, top.kids))]

RECURSIVE closeTo(_, _)
closeTo(stack, k) == IF Len(stack) > k THEN closeTo(closeTop(stack), k) ELSE stack

RECURSIVE buildTree(_, _)
buildTree(tokens, stack) ==
    IF tokens = <<>> THEN closeTo(stack, 1)[1].kids
    ELSE LET tok == Head(tokens)
             n == Len(stack)
         IN CASE tok.t = "text" ->
                   buildTree(Tail(tokens), [stack EXCEPT ![n].kids = addParsed(@, tok.node)])
              [] tok.t = "node" ->
                   buildTree(Tail(tokens),
                             [stack EXCEPT ![n].kids = addParsed(@, normalizeNode(tok.node))])
              [] tok.t = "open" ->
                   IF tok.name \in VoidElements
                   THEN buildTree(Tail(tokens),
                          [stack EXCEPT ![n].kids =
                             addParsed(@, Elt(<<>>, tok.name, tok.atts, <<>>))])
                   ELSE buildTree(Tail(tokens),
                          Append(stack, [name |-> tok.name, atts |-> tok.atts, kids |-> <<>>]))
              [] tok.t = "close" ->
                   LET opens == { k \in 2..n : stack[k].name = tok.name }
                   IN IF opens = {} THEN buildTree(Tail(tokens), stack)
                      ELSE buildTree(Tail(tokens),
                             closeTo(stack, (CHOOSE k \in opens : \A j \in opens : j <= k) - 1))

\* the child nodes that setting innerHTML to the markup of the tokens gives
parseHTML(tokens) == buildTree(tokens, << [name |-> <<>>, atts |-> <<>>, kids |-> <<>>] >>)

\* str.match("<[^>]+>"): a "<", one or more characters that are no ">", a ">"
matchesTag(s) ==
    \E i \in DOMAIN s : s[i] = "<" /\ indexFrom(s, ">", i + 1) > i + 1

RECURSIVE stripTags(_)
\* str.replace(/<[^>]+>/g, "")
stripTags(s) ==
    IF s = <<>> THEN <<>>
    ELSE LET gt == indexFrom(s, ">", 2)
         IN IF Head(s) = "<" /\ gt > 2 THEN stripTags(SubSeq(s, gt + 1, Len(s)))
            ELSE <<Head(s)>> \o stripTags(Tail(s))

(***************************************************************************)
(* Element.matches for the selectors of behaviour rules: an attribute      *)
(* selector [name] or [name=value], a type selector, a type selector with  *)
(* an attribute selector, and parent>child over type selectors.            *)
(***************************************************************************)
\* [name] or [name=value], s is the text between the brackets
matchesAttribute(elt, s) ==
    LET eq == indexFrom(s, "=", 1)
        name == toLowerCase(IF eq = 0 THEN s ELSE SubSeq(s, 1, eq - 1))
        raw == IF eq = 0 THEN <<>> ELSE SubSeq(s, eq + 1, Len(s))
        value == removeAll(raw, "\"")
    IN /\ hasAttribute(elt, name)
       /\ eq # 0 => getAttribute(elt, name) = value

\* a compound selector: an optional type selector and an optional attribute selector
matchesCompound(elt, s) ==
    LET br == indexFrom(s, "[", 1)
        type == IF br = 0 THEN s ELSE SubSeq(s, 1, br - 1)
    IN /\ isElement(elt)
       /\ type # <<>> => toLowerCase(type) = elt.name
       /\ br # 0 => /\ s[Len(s)] = "]"
                    /\ matchesAttribute(elt, SubSeq(s, br + 1, Len(s) - 1))

\* elt.matches(selector); parent is the name of the parent element, <<>> if none
matches(elt, selector, parent) ==
    LET gt == indexFrom(selector, ">", 1)
    IN IF gt = 0 THEN matchesCompound(elt, selector)
       ELSE /\ matchesCompound(elt, SubSeq(selector, gt + 1, Len(selector)))
            /\ parent = toLowerCase(SubSeq(selector, 1, gt - 1))

(***************************************************************************)
(* utilities.ts: hideContent.                                              *)
(***************************************************************************)
isProcessed(e) == hasAttribute(e, s_data_processed)
setProcessed(e) == setAttributeHTML(e, s_data_processed, <<>>)

RECURSIVE flagDeep(_)
\* utilities.ts 113-118: data-processed on an element child and on its descendants
flagDeep(n) ==
    IF isElement(n)
    THEN [setProcessed(n) EXCEPT !.kids = [i \in DOMAIN n.kids |-> flagDeep(n.kids[i])]]
    ELSE n

RECURSIVE rewriteIdDeep(_)
\* utilities.ts 122-128: id becomes data-origid on the hidden elements
rewriteIdDeep(n) ==
    IF isElement(n)
    THEN LET e == IF hasAttribute(n, s_id)
                  THEN removeAttribute(
                         setAttributeHTML(n, s_data_origid, getAttribute(n, s_id)), s_id)
                  ELSE n
         IN [e EXCEPT !.kids = [i \in DOMAIN n.kids |-> rewriteIdDeep(n.kids[i])]]
    ELSE n

\* utilities.ts 101-131
hideContent(elt, rewriteIds) ==
    IF Len(elt.kids) > 0
    THEN LET flagged == [i \in DOMAIN elt.kids |-> flagDeep(elt.kids[i])]
             moved == IF rewriteIds
                      THEN [i \in DOMAIN flagged |-> rewriteIdDeep(flagged[i])]
                      ELSE flagged
             hidden == Elt(<<>>, s_cetei_original,
                           << <<s_hidden, <<>> >>, <<s_data_original, <<>> >>,
                              <<s_role, s_none>> >>, moved)
         IN [elt EXCEPT !.kids = <<hidden>>]
    ELSE elt

\* the content appended after the child nodes, which stay in place
appendBasicKeep(elt, content, discardContent) == appendChild(elt, content)

\* CETEI.ts 353-360
appendBasic(elt, content, discardContent) ==
    appendChild(IF discardContent THEN [elt EXCEPT !.kids = <<>>]
                ELSE hideContent(elt, TRUE), content)

\* CETEI.ts 363-367
bName(e) ==
    SubSeq(e.name, 1, indexOf(e.name, s_dash) - 1) \o s_colon
      \o getAttribute(e, s_data_origname)

(***************************************************************************)
(* The behaviour engine: decorator, applyDecorator, insert, processElement *)
(* and append.  An element is a value, so each operator gives the element  *)
(* after the call, with the content the behaviour returned (or null) and   *)
(* the log of the calls made, in call order:                               *)
(*   [k |-> "call", at, tag]: append's process called the behaviour        *)
(*                            function on the element at path "at";        *)
(*   [k |-> "leaf", at, tag, act]: the function, or the template, act ran; *)
(*   [k |-> "flag", at, tag]: data-processed was set on the element.       *)
(***************************************************************************)
\* null and undefined
null == [null |-> TRUE]

\* What a call reads of the converter: this.behaviors, this.base,
\* this.discardContent, the number gen of the activation, and the place of
\* the element it is about: its path from the root and its parent's name.
Ctx(behaviors, base, discardContent, gen) ==
    [behaviors |-> behaviors, base |-> base, discardContent |-> discardContent,
     gen |-> gen, path |-> <<>>, parent |-> <<>>]
kidCtx(ctx, elt, i) == [ctx EXCEPT !.path = Append(@, i), !.parent = elt.name]

nothing(elt) == [elt |-> elt, content |-> null, log |-> <<>>]
leafEntry(elt, ctx, def) == [k |-> "leaf", at |-> ctx.path, tag |-> elt.name, act |-> def]
callEntry(elt, ctx) ==
    [k |-> "call", at |-> ctx.path, tag |-> elt.name, flagged |-> isProcessed(elt)]

s_img == <<"i","m","g">>
s_src == <<"s","r","c">>
s_url == <<"u","r","l">>
s_width == <<"w","i","d","t","h">>
s_height == <<"h","e","i","g","h","t">>
s_dl == <<"d","l">>
s_dt == <<"d","t">>
s_dd == <<"d","d">>
s_span == <<"s","p","a","n">>
s_tei_label == <<"t","e","i","-","l","a","b","e","l">>
s_tei_item == <<"t","e","i","-","i","t","e","m">>

\* defaultBehaviors.ts 20-38: graphic
graphic(elt, ctx) ==
    LET url == getAttribute(elt, s_url)
        c0 == setAttributeHTML(createElement(s_img), s_src,
                               IF url # <<>> THEN rw(ctx.base, url) ELSE <<>>)
        c1 == IF getAttribute(elt, s_width) # <<>>
              THEN setAttributeHTML(c0, s_width, getAttribute(elt, s_width)) ELSE c0
        c2 == IF getAttribute(elt, s_height) # <<>>
              THEN setAttributeHTML(c1, s_height, getAttribute(elt, s_height)) ELSE c1
    IN [elt |-> elt, content |-> c2, log |-> <<>>]

RECURSIVE glossItems(_)
\* defaultBehaviors.ts 44-58: a dt for a label child, a dd for an item child
glossItems(kids) ==
    IF kids = <<>> THEN <<>>
    ELSE LET child == Head(kids)
         IN (IF isElement(child) /\ child.name = s_tei_label
             THEN <<Elt(<<>>, s_dt, <<>>, parseHTML(nodeTokens(child.kids)))>>
             ELSE IF isElement(child) /\ child.name = s_tei_item
             THEN <<Elt(<<>>, s_dd, <<>>, parseHTML(nodeTokens(child.kids)))>>
             ELSE <<>>)
            \o glossItems(Tail(kids))

\* defaultBehaviors.ts 41-60: the function of list[type=gloss]
glossList(elt, ctx) ==
    [elt |-> elt, content |-> Elt(<<>>, s_dl, <<>>, glossItems(elt.kids)), log |-> <<>>]

\* defaultBehaviors.ts 94-96
teiHeader(elt, ctx) == [elt |-> hideContent(elt, FALSE), content |-> null, log |-> <<>>]

\* A function of the caller that returns a new element and leaves elt alone
userSpan(elt, ctx) ==
    [elt |-> elt, content |-> Elt(<<>>, s_span, <<>>, <<Txt(<<"*">>)>>), log |-> <<>>]

\* A function of the caller that returns nothing and leaves elt alone
userNothing(elt, ctx) == nothing(elt)

\* fn.call(this.utilities, elt) for a function behaviour
runFunction(fn, elt, ctx) ==
    CASE fn = "graphic" -> graphic(elt, ctx)
      [] fn = "glossList" -> glossList(elt, ctx)
      [] fn = "teiHeader" -> teiHeader(elt, ctx)
      [] fn = "userSpan" -> userSpan(elt, ctx)
      [] fn = "userNothing" -> userNothing(elt, ctx)

\* The test of one rule without the wildcard
ruleAppliesSelectorOnly(elt, selector, parent) == matches(elt, selector, parent)

\* CETEI.ts 402: the test of one rule
ruleApplies(elt, selector, parent) ==
    matches(elt, selector, parent) \/ selector = s_wildcard

\* behaviors[fn], for getFallback and getHandler
hasBehavior(behaviors, fn) == fn \in DOMAIN behaviors

\* CETEI.ts 472-477: what insert returns
insertResult(content) ==
    IF Len(content.kids) < 2
    THEN (IF content.kids # <<>> THEN content.kids[1] ELSE content)
    ELSE content

\* CETEI.ts 461-471: the content element of insert for the child nodes kids
insertContent(kids, strings) ==
    LET content == createElement(s_cetei_content)
    IN IF matchesTag(strings[1]) /\ Len(strings) > 1 /\ strings[2] # <<>>
          /\ matchesTag(strings[2])
       THEN [content EXCEPT !.kids =
               parseHTML(tokenize(strings[1]) \o nodeTokens(kids) \o tokenize(strings[2]))]
       ELSE LET c1 == setAttributeHTML(content, s_data_before,
                                       numStr(Len(stripTags(strings[1]))))
                cloned == parseHTML(tokenize(strings[1])) \o kids
            IN IF Len(strings) > 1
               THEN [setAttributeHTML(c1, s_data_after, numStr(Len(stripTags(strings[2]))))
                       EXCEPT !.kids = parseHTML(nodeTokens(cloned) \o tokenize(strings[2]))]
               ELSE [c1 EXCEPT !.kids = cloned]

RECURSIVE decorator(_, _, _)
RECURSIVE decoratorRules(_, _, _, _)
RECURSIVE insert(_, _, _)
RECURSIVE processElement(_, _)
RECURSIVE processChildren(_, _, _, _)
RECURSIVE process(_, _, _)

\* the result r of an action, its log after entry
logged(entry, r) == [r EXCEPT !.log = <<entry>> \o @]

\* CETEI.ts 392-414 and 416-422: the function decorator(def), called on elt
decorator(def, elt, ctx) ==
    CASE def.kind = "function" ->
           logged(leafEntry(elt, ctx, def), runFunction(def.fn, elt, ctx))
      [] def.kind = "template" ->
           IF def.strings = <<>> THEN nothing(elt)
           ELSE logged(leafEntry(elt, ctx, def),
                       insert(elt, [i \in DOMAIN def.strings |->
                                      template(def.strings[i], elt, ctx.base)], ctx))
      [] def.kind = "rules" -> decoratorRules(def.rules, 1, elt, ctx)

\* CETEI.ts 401-408: the loop over the rules, from rule i
decoratorRules(rules, i, elt, ctx) ==
    IF i > Len(rules) THEN nothing(elt)
    ELSE IF ruleApplies(elt, rules[i][1], ctx.parent)
    THEN decorator(rules[i][2], elt, ctx)
    ELSE decoratorRules(rules, i + 1, elt, ctx)

\* CETEI.ts 461-477: the content made of the child nodes left by the loop, p
inserted(p, strings) ==
    [elt |-> p.elt, content |-> insertResult(insertContent(p.elt.kids, strings)),
     log |-> p.log]

\* CETEI.ts 454-478
insert(elt, strings, ctx) ==
    inserted(processChildren([elt |-> elt, log |-> <<>>], 1, ctx, TRUE), strings)

\* an element and the log so far, acc, after the call r on its i-th child
putChild(acc, i, r) ==
    [elt |-> [acc.elt EXCEPT !.kids = replaceChild(@, i, r.elt)], log |-> acc.log \o r.log]

\* elt.setAttribute("data-processed", "") after the call r on elt
flag(r, ctx) ==
    [elt |-> setProcessed(r.elt),
     log |-> IF isProcessed(r.elt) THEN r.log
             ELSE Append(r.log, [k |-> "flag", at |-> ctx.path, tag |-> r.elt.name])]

\* processElement on the element children of acc.elt from child i, in order; with
\* unprocessedOnly (CETEI.ts 456-460) a child that has data-processed is skipped
processChildren(acc, i, ctx, unprocessedOnly) ==
    IF i > Len(acc.elt.kids) THEN acc
    ELSE processChildren(
           putChild(acc, i,
                    IF /\ isElement(acc.elt.kids[i])
                       /\ ~(unprocessedOnly /\ isProcessed(acc.elt.kids[i]))
                    THEN processElement(acc.elt.kids[i], kidCtx(ctx, acc.elt, i))
                    ELSE [elt |-> acc.elt.kids[i], log |-> <<>>]),
           i + 1, ctx, unprocessedOnly)

\* CETEI.ts 480-493
processElement(elt, ctx) ==
    processChildren(IF /\ hasAttribute(elt, s_data_origname)
                       /\ ~isProcessed(elt)
                       /\ hasBehavior(ctx.behaviors, bName(elt))
                    THEN flag(process(ctx.behaviors[bName(elt)], elt, ctx), ctx)
                    ELSE [elt |-> elt, log |-> <<>>],
                    1, ctx, FALSE)

\* CETEI.ts 336-339: the content r.content the behaviour function returned is
\* appended to the element it left, r.elt
appended(r, target, ctx) ==
    [elt |-> IF r.content # null
             THEN appendBasic(r.elt, stamp(r.content, ctx.gen), ctx.discardContent)
             ELSE r.elt,
     log |-> <<callEntry(target, ctx)>> \o r.log]

\* the process function of append without the test of data-processed
processUnchecked(def, target, ctx) == appended(decorator(def, target, ctx), target, ctx)

\* CETEI.ts 333-341: the process function of append, for the behaviour def
process(def, target, ctx) ==
    IF isProcessed(target) THEN [elt |-> target, log |-> <<>>]
    ELSE appended(decorator(def, target, ctx), target, ctx)

(***************************************************************************)
(* Activation: fallback (CETEI.ts 549-564) and the class that define       *)
(* registers (utilities.ts 376-412).                                       *)
(***************************************************************************)
RECURSIVE fallbackElement(_, _, _, _)
RECURSIVE fallbackChildren(_, _, _, _, _)
\* CETEI.ts 557-562 for node and then for its descendants, in document order.
\* The static list of querySelectorAll holds the elements named tag that
\* existed when the loop began: those not made by this activation.
fallbackElement(node, def, tag, ctx) ==
    fallbackChildren(IF /\ isElement(node) /\ node.name = tag /\ node.gen < ctx.gen
                        /\ ~isProcessed(node)
                     THEN flag(process(def, node, ctx), ctx)
                     ELSE [elt |-> node, log |-> <<>>],
                     1, def, tag, ctx)

fallbackChildren(acc, i, def, tag, ctx) ==
    IF i > Len(acc.elt.kids) THEN acc
    ELSE fallbackChildren(
           putChild(acc, i, fallbackElement(acc.elt.kids[i], def, tag,
                                            kidCtx(ctx, acc.elt, i))),
           i + 1, def, tag, ctx)

RECURSIVE fallback(_, _, _, _)
\* CETEI.ts 549-564 from the i-th name, acc.elt = this.dom: [dom, log, gen]
fallback(names, i, acc, ctx) ==
    IF i > Len(names) THEN [dom |-> acc.elt, log |-> acc.log, gen |-> ctx.gen]
    ELSE IF ~hasBehavior(ctx.behaviors, names[i]) THEN fallback(names, i + 1, acc, ctx)
    ELSE fallback(names, i + 1,
                  fallbackChildren(acc, 1, ctx.behaviors[names[i]], tagName(names[i]), ctx),
                  [ctx EXCEPT !.gen = @ + 1])

\* window.customElements.define(tag, class): the host throws for a tag that is
\* registered already and for a tag that is no custom element name
validTag(tag) == tag # <<>> /\ tag[1] \in Range(LOWER) /\ \E i \in DOMAIN tag : tag[i] = "-"
customElementsDefine(registry, tag, behavior) ==
    IF tag \in DOMAIN registry \/ ~validTag(tag)
    THEN [threw |-> TRUE, registry |-> registry]
    ELSE [threw |-> FALSE, registry |-> bSet(registry, tag, behavior)]

\* the try block without its catch: the error of the host leaves the function
defineCustomElementNoCatch(st, name, behavior, debug) ==
    [registry |-> customElementsDefine(st.registry, tagName(name), behavior).registry,
     console |-> st.console,
     raised |-> customElementsDefine(st.registry, tagName(name), behavior).threw]

\* utilities.ts 376-412: st is [registry, console, raised]; the registry maps a
\* tag to the behaviour of its handler or null, the console holds the tags
\* console.log was called for, raised tells that an error left the function
defineCustomElement(st, name, behavior, debug) ==
    [registry |-> customElementsDefine(st.registry, tagName(name), behavior).registry,
     console |-> IF customElementsDefine(st.registry, tagName(name), behavior).threw
                    /\ debug
                 THEN Append(st.console, tagName(name)) ELSE st.console,
     raised |-> FALSE]

RECURSIVE define(_, _, _, _, _)
\* CETEI.ts 535-540: the loop ends with the names, or with an error raised
define(names, i, behaviors, debug, st) ==
    IF i > Len(names) \/ st.raised THEN st
    ELSE define(names, i + 1, behaviors, debug,
                defineCustomElement(st, names[i],
                                    IF hasBehavior(behaviors, names[i])
                                    THEN behaviors[names[i]] ELSE null,
                                    debug))

\* the state define begins with
defining(registry) == [registry |-> registry, console |-> <<>>, raised |-> FALSE]

\* the constructor with the flag set outside the test of the behaviour
upgradeConstructorFlags(behavior, this, ctx) ==
    IF behavior # null THEN flag(process(behavior, this, ctx), ctx)
    ELSE [elt |-> setProcessed(this), log |-> <<>>]

\* utilities.ts 384-393: the constructor, run to upgrade an element
upgradeConstructor(behavior, this, ctx) ==
    IF behavior # null THEN flag(process(behavior, this, ctx), ctx)
    ELSE [elt |-> this, log |-> <<>>]

\* utilities.ts 395-402
connectedCallback(behavior, this, ctx) ==
    IF ~isProcessed(this) /\ behavior # null THEN flag(process(behavior, this, ctx), ctx)
    ELSE [elt |-> this, log |-> <<>>]

(***************************************************************************)
(* Paths: a node of a tree by the child indexes that lead to it.           *)
(***************************************************************************)
RECURSIVE nodeAt(_, _)
nodeAt(n, path) == IF path = <<>> THEN n ELSE nodeAt(n.kids[Head(path)], Tail(path))

RECURSIVE replaceAt(_, _, _)
replaceAt(n, path, new) ==
    IF path = <<>> THEN new
    ELSE [n EXCEPT !.kids = replaceChild(@, Head(path),
                                         replaceAt(@[Head(path)], Tail(path), new))]

RECURSIVE elementPaths(_)
\* the paths of the element descendants of n
elementPaths(n) ==
    UNION { { <<i>> \o p : p \in {<<>>} \cup elementPaths(n.kids[i]) } :
            i \in { k \in DOMAIN n.kids : isElement(n.kids[k]) } }

\* the context of the element at path: its path and its parent's name
ctxAt(ctx, root, path) ==
    [ctx EXCEPT !.path = path,
                !.parent = nodeAt(root, SubSeq(path, 1, Len(path) - 1)).name]

(***************************************************************************)
(* utilities.ts: copyAndReset and serialize.  The markup serialize writes  *)
(* is a sequence of pieces: start tags with their attributes in order, end *)
(* tags, text and comments.                                                *)
(***************************************************************************)
\* utilities.ts 71-75: the identifier of a child read back from the hidden container
restoreId(child) ==
    IF isElement(child) /\ hasAttribute(child, s_data_origid)
    THEN removeAttribute(
           setAttributeHTML(child, s_id, getAttribute(child, s_data_origid)), s_data_origid)
    ELSE child

RECURSIVE copyAttributes(_, _)
\* utilities.ts 59-65
copyAttributes(result, atts) ==
    IF atts = <<>> THEN result
    ELSE copyAttributes(IF Head(atts)[1] # s_data_processed
                        THEN setAttributeHTML(result, Head(atts)[1], Head(atts)[2])
                        ELSE result, Tail(atts))

RECURSIVE clone(_)
RECURSIVE cloneChildren(_, _)
\* utilities.ts 40-86
clone(n) ==
    IF isElement(n)
    THEN [copyAttributes(createElement(n.name), n.atts) EXCEPT
            !.kids = cloneChildren(n.kids, <<>>)]
    ELSE IF n.type = "fragment" THEN [n EXCEPT !.kids = cloneChildren(n.kids, <<>>), !.gen = 0]
    ELSE [n EXCEPT !.gen = 0]

\* utilities.ts 66-84: the loop over the child nodes, result's children so far in acc
cloneChildren(kids, acc) ==
    IF kids = <<>> THEN acc
    ELSE LET nd == Head(kids)
         IN IF isElement(nd)
            THEN IF hasAttribute(nd, s_data_original)
                 THEN acc \o [i \in DOMAIN nd.kids |-> restoreId(clone(nd.kids[i]))]
                 ELSE IF hasAttribute(nd, s_data_origname)
                 THEN cloneChildren(Tail(kids), Append(acc, clone(nd)))
                 ELSE cloneChildren(Tail(kids), acc)
            ELSE cloneChildren(Tail(kids), Append(acc, [nd EXCEPT !.gen = 0]))

copyAndReset(node) == clone(node)

XmlOpen(name, atts, selfClosing) ==
    [t |-> "open", name |-> name, atts |-> atts, selfClosing |-> selfClosing, value |-> <<>>]
XmlClose(name) ==
    [t |-> "close", name |-> name, atts |-> <<>>, selfClosing |-> FALSE, value |-> <<>>]
XmlText(v) ==
    [t |-> "text", name |-> <<>>, atts |-> <<>>, selfClosing |-> FALSE, value |-> v]
XmlComment(v) ==
    [t |-> "comment", name |-> <<>>, atts |-> <<>>, selfClosing |-> FALSE, value |-> v]

\* attrNames.find((e) => e.toLowerCase() == n) || n
originalName(attrNames, n) ==
    LET hits == { i \in DOMAIN attrNames : toLowerCase(attrNames[i]) = n }
        e == attrNames[CHOOSE i \in hits : \A j \in hits : i <= j]
    IN IF hits # {} /\ e # <<>> THEN e ELSE n

\* utilities.ts 222-236: what one attribute adds to the start tag
serializeAttribute(attr, attrNames) ==
    (IF /\ ~startsWith(attr[1], s_data_) /\ ~startsWith(attr[1], s_tei_)
        /\ ~startsWith(attr[1], s_aria_) /\ attr[1] \notin {s_id, s_lang, s_class}
     THEN << <<originalName(attrNames, attr[1]), attr[2]>> >> ELSE <<>>)
    \o (IF attr[1] = s_data_xmlns THEN << <<s_xmlns, attr[2]>> >> ELSE <<>>)
    \o (IF startsWith(attr[1], s_tei_)
        THEN << <<originalName(attrNames, replaceFirst(attr[1], s_tei_, <<>>)), attr[2]>> >>
        ELSE <<>>)

RECURSIVE serialize(_)
\* utilities.ts 202-285 on an element, stripElt and ws not given
serialize(el) ==
    LET name == getAttribute(el, s_data_origname)
        attrNames == IF hasAttribute(el, s_data_origatts)
                     THEN split(getAttribute(el, s_data_origatts), " ") ELSE <<>>
        atts == flatten([i \in DOMAIN el.atts |-> serializeAttribute(el.atts[i], attrNames)])
    IN <<XmlOpen(name, atts, Len(el.kids) = 0)>>
       \o flatten([i \in DOMAIN el.kids |->
                     CASE el.kids[i].type = "element" -> serialize(el.kids[i])
                       [] el.kids[i].type = "comment" -> <<XmlComment(el.kids[i].value)>>
                       [] OTHER -> <<XmlText(el.kids[i].value)>>])
       \o (IF Len(el.kids) > 0 THEN <<XmlClose(name)>> ELSE <<>>)

\* utilities.ts 192-194
resetAndSerialize(el) == serialize(copyAndReset(el))

(***************************************************************************)
(* defaultBehaviors.ts 62-92: the end-note behaviour.  It reads and writes *)
(* beside the element: env is [document, dom, noteIndex], the page of      *)
(* elt.ownerDocument, this.dom of the utilities (the root element of the   *)
(* last conversion, or null) and this.noteIndex.                           *)
(***************************************************************************)
s_a == <<"a">>
s_sup == <<"s","u","p">>
s_ol == <<"o","l">>
s_li == <<"l","i">>
s_notes == <<"n","o","t","e","s">>
s_href == <<"h","r","e","f">>
s_note_id == <<"_","n","o","t","e","_">>

\* e matches "ol.notes"
isNotes(e) ==
    /\ isElement(e) /\ e.name = s_ol
    /\ \E i \in DOMAIN split(getAttribute(e, s_class), " ") :
         split(getAttribute(e, s_class), " ")[i] = s_notes

RECURSIVE notesPaths(_)
\* the paths of the elements below n that match "ol.notes"
notesPaths(n) ==
    UNION { { <<i>> \o p : p \in (IF isNotes(n.kids[i]) THEN {<<>>} ELSE {})
                                   \cup notesPaths(n.kids[i]) } :
            i \in { k \in DOMAIN n.kids : isElement(n.kids[k]) } }

\* doc.querySelector("ol.notes"): the path of the first match in document
\* order, or null
RECURSIVE firstNotes(_, _)
firstNotes(n, i) ==
    IF i > Len(n.kids) THEN null
    ELSE IF isNotes(n.kids[i]) THEN [path |-> <<i>>]
    ELSE IF isElement(n.kids[i]) /\ notesPaths(n.kids[i]) # {}
    THEN [path |-> <<i>> \o firstNotes(n.kids[i], 1).path]
    ELSE firstNotes(n, i + 1)

\* defaultBehaviors.ts 69-74: <sup><a id="src_note_N" href="#_note_N">N</a></sup>
noteLink(index) ==
    appendChild(createElement(s_sup),
      appendChild(
        setAttributeHTML(
          setAttributeHTML(createElement(s_a), s_id, s_src \o s_note_id \o numStr(index)),
          s_href, s_hash \o s_note_id \o numStr(index)),
        Txt(numStr(index))))

\* defaultBehaviors.ts 85-87: <li id="_note_N"> with the markup of elt's child nodes
noteItem(elt, index) ==
    [setAttributeHTML(createElement(s_li), s_id, s_note_id \o numStr(index))
       EXCEPT !.kids = elt.kids]

\* defaultBehaviors.ts 77-78: <ol class="notes">
notesList == setAttributeHTML(createElement(s_ol), s_class, s_notes)

\* the behaviour without the test of the host: it returns nothing
endNoteSilent(elt, env) ==
    [raised |-> FALSE, content |-> null, env |-> env]

\* defaultBehaviors.ts 64-91: [raised, content, env]; raised tells that the
\* function threw, env is what it left beside the element
endNote(elt, env) ==
    IF firstNotes(env.document, 1) = null /\ env.dom = null
    THEN [raised |-> TRUE, content |-> null,
          env |-> [env EXCEPT !.noteIndex = @ + 1]]
    ELSE IF firstNotes(env.document, 1) = null
    THEN [raised |-> FALSE, content |-> noteLink(env.noteIndex + 1),
          env |-> [env EXCEPT
                     !.noteIndex = @ + 1,
                     !.dom = appendChild(@, appendChild(notesList,
                                                        noteItem(elt, env.noteIndex + 1)))]]
    ELSE [raised |-> FALSE, content |-> noteLink(env.noteIndex + 1),
          env |-> [env EXCEPT
                     !.noteIndex = @ + 1,
                     !.document =
                        replaceAt(@, firstNotes(env.document, 1).path,
                                  appendChild(nodeAt(@, firstNotes(env.document, 1).path),
                                              noteItem(elt, env.noteIndex + 1)))]]

(***************************************************************************)
(* utilities.ts 21-32: getOrdinality.  The element is the i-th child node  *)
(* of its parent, whose child nodes are kids; name is <<>> when omitted    *)
(* (the test "name ?" takes undefined and "" alike).                       *)
(***************************************************************************)
\* e.previousElementSibling: the position of the nearest element before the
\* i-th child node, 0 for null
previousElementSibling(kids, i) ==
    IF \E j \in 1..(i - 1) : isElement(kids[j])
    THEN CHOOSE j \in 1..(i - 1) :
           isElement(kids[j]) /\ \A k \in (j + 1)..(i - 1) : ~isElement(kids[k])
    ELSE 0

RECURSIVE ordinalityLoop(_, _, _, _)
\* utilities.ts 24-30: the loop, e the position of the element it has reached
ordinalityLoop(kids, e, name, pos) ==
    IF /\ previousElementSibling(kids, e) # 0
       /\ IF name # <<>>
          THEN kids[previousElementSibling(kids, e)].name = name
          ELSE TRUE
    THEN ordinalityLoop(kids, previousElementSibling(kids, e), name, pos + 1)
    ELSE pos

\* utilities.ts 21-32
getOrdinality(kids, i, name) == ordinalityLoop(kids, i, name, 1)

(***************************************************************************)
(* utilities.ts 34-88 once more, with the node handed to copyAndReset      *)
(* followed through the call: each operator gives the copy made (result)   *)
(* and the node copied as the call leaves it (n, or live for its child     *)
(* nodes).                                                                 *)
(***************************************************************************)
\* the identifier restored on the node the copy took from the container, too
restoredInPlace(child, childNode) ==
    [child |-> restoreId(child), childNode |-> restoreId(childNode)]

\* utilities.ts 70-76: child is the clone appended to result; the identifier is
\* restored on it, childNode stays as it is
restored(child, childNode) == [child |-> restoreId(child), childNode |-> childNode]

\* utilities.ts 70: result.appendChild(...) of the clone pr.child of the k-th
\* child node of the container, which is the i-th child node of n
appendRestored(acc, i, k, pr) ==
    [result |-> Append(acc.result, pr.child),
     live |-> replaceChild(acc.live, i,
                           [acc.live[i] EXCEPT !.kids = replaceChild(@, k, pr.childNode)])]

\* utilities.ts 79: result.appendChild(clone(nd)) for the i-th child node of n
appendCloned(acc, i, r) ==
    [result |-> Append(acc.result, r.result), live |-> replaceChild(acc.live, i, r.n)]

\* utilities.ts 87: the copy with its child nodes, and n with its own
cloned(result, n, acc) ==
    [result |-> [result EXCEPT !.kids = acc.result], n |-> [n EXCEPT !.kids = acc.live]]

\* restored for a clone r of childNode
restoredClone(r) == restored(r.result, r.n)

RECURSIVE cloneWithSource(_)
RECURSIVE cloneKidsWithSource(_, _, _)
RECURSIVE cloneHiddenWithSource(_, _, _, _)
\* utilities.ts 40-86
cloneWithSource(n) ==
    IF isElement(n)
    THEN cloned(copyAttributes(createElement(n.name), n.atts), n,
                cloneKidsWithSource(n.kids, 1, [result |-> <<>>, live |-> n.kids]))
    ELSE IF n.type = "fragment"
    THEN cloned([n EXCEPT !.kids = <<>>, !.gen = 0], n,
                cloneKidsWithSource(n.kids, 1, [result |-> <<>>, live |-> n.kids]))
    ELSE [result |-> [n EXCEPT !.gen = 0], n |-> n]

\* utilities.ts 66-84: the loop over the child nodes of n, from the i-th on
cloneKidsWithSource(kids, i, acc) ==
    IF i > Len(kids) THEN acc
    ELSE IF isElement(kids[i])
    THEN IF hasAttribute(kids[i], s_data_original)
         THEN cloneHiddenWithSource(kids[i].kids, 1, i, acc)
         ELSE IF hasAttribute(kids[i], s_data_origname)
         THEN cloneKidsWithSource(kids, i + 1,
                                  appendCloned(acc, i, cloneWithSource(kids[i])))
         ELSE cloneKidsWithSource(kids, i + 1, acc)
    ELSE cloneKidsWithSource(kids, i + 1,
                             [acc EXCEPT !.result = Append(@, [kids[i] EXCEPT !.gen = 0])])

\* utilities.ts 69-77: the loop over the child nodes of the container, from the
\* k-th on, and the return
cloneHiddenWithSource(childNodes, k, i, acc) ==
    IF k > Len(childNodes) THEN acc
    ELSE cloneHiddenWithSource(
           childNodes, k + 1, i,
           appendRestored(acc, i, k, restoredClone(cloneWithSource(childNodes[k]))))

\* utilities.ts 34-88: [result, n]
copyAndResetWithSource(node) == cloneWithSource(node)

(***************************************************************************)
(* The converter instance and the history the properties read.             *)
(***************************************************************************)
VARIABLES
    namespaces,  \* this.namespaces
    behaviors,   \* this.behaviors
    els,         \* this.els
    dom,         \* this.dom: a fragment, or null before the first conversion
    xml,         \* the source document of the last conversion
    options,     \* [discardContent, base, debug]: the fields of this set from the options
    registry,    \* window.customElements: tag -> the behaviour of its handler, or null
    gen,         \* the number of the next activation
    log,         \* the log of the calls of the last operation
    out,         \* [markup]: what the last resetAndSerialize gave, or null
    clean,       \* [markup]: what resetAndSerialize gave before any activation, or null
    rendered,    \* the fragments of the earlier conversions, oldest first
    last,        \* the last call: [op, before, arg, ...]
    remapped,    \* namespace -> prefix, for namespaces unset and then registered
    nops,        \* the number of calls made
    call,        \* a call of a function on its own, or the run of domToHTML5: [fn, ...]
    result,      \* what the call gave ([string] for template), or null before it
    done,        \* this.done
    document,    \* this.document: the page, with the nodes attached to it
    window,      \* the global window: "none", "plain", or "customElements"
    events       \* what the run of domToHTML5 in progress has done, in order

converterVars == <<namespaces, behaviors, els, dom, xml>>
activationVars == <<options, registry, gen, log, out, clean>>
historyVars == <<rendered, last, remapped, nops>>
callVars == <<call, result>>
runVars == <<done, document, window, events>>
vars == <<converterVars, activationVars, historyVars, callVars, runVars>>

\* The page of this.document, with the nodes attached to it
Page(kids) ==
    [type |-> "document", ns |-> <<>>, name |-> <<>>, atts |-> <<>>,
     kids |-> kids, value |-> <<>>, gen |-> 0]

\* no run of domToHTML5 has begun: this.done is not set, the page is empty
runIdle ==
    /\ done = FALSE
    /\ document = Page(<<>>)
    /\ window = "customElements"
    /\ events = <<>>

\* CETEI constructor (CETEI.ts 76-91)
constructed(omitDefaultBehaviors) ==
    IF omitDefaultBehaviors
    THEN [namespaces |-> <<>>, behaviors |-> <<>>]
    ELSE addBehaviors(<<>>, <<>>, defaultBehaviors)

(***************************************************************************)
(* The registrar under test: registrations, unsetNamespace and document    *)
(* conversions on one converter instance.                                  *)
(***************************************************************************)
MaxOps == 4

\* Source documents over the namespaces nsA and nsB
docAB == [kids |-> << Elt(nsA, s_x, <<>>, << Elt(nsB, s_y, <<>>, <<>>) >>) >>]
docB == [kids |-> << Elt(nsB, s_y, <<>>, <<>>) >>]
NsDocs == {docAB, docB}

D1 == TplDef(<<t_lparen, t_rparen>>)
D2 == FnDef("graphic")

NsBulk ==
    { [namespaces |-> << <<s_x, nsA>> >>, entries |-> << <<s_x, << <<s_x, D1>> >> >> >>],
      [namespaces |-> << <<s_tei, nsB>>, <<s_y, nsA>> >>,
       entries |-> << <<s_y, << <<s_y, D2>> >> >>, <<s_tei, << <<s_p, D2>>, <<s_ptr, D2>> >> >> >>] }

NsArgs ==
    { [kind |-> "prefix", prefix |-> s_x],
      [kind |-> "decl", decl |-> << <<s_y, nsA>> >>],
      [kind |-> "decl", decl |-> << <<s_x, nsB>> >>] }

NsRemoveArgs ==
    { [kind |-> "prefix", prefix |-> s_x],
      [kind |-> "decl", decl |-> << <<s_y, nsB>> >>] }

NsUnset == {nsA, nsB}

\* The declarations a call registers: <<prefix, namespace>> pairs
declsOf(op, arg) ==
    IF op = "addBehaviors" THEN Range(arg.namespaces)
    ELSE IF op \in {"addBehavior", "removeBehavior"} /\ arg.kind = "decl" THEN Range(arg.decl)
    ELSE {}

\* The remaps: namespace ns was unset by the call before this one, and this call
\* registers it with the explicit prefix p, which no namespace has
remapAfter(op, arg) ==
    LET hit == { d \in declsOf(op, arg) :
                   /\ last.op = "unsetNamespace" /\ last.arg = d[2]
                   /\ d[1] \notin Range(nsValues(namespaces)) }
        gone == IF op = "unsetNamespace" THEN {arg} ELSE {}
    IN { r \in remapped : r[2] \notin gone /\ \A d \in hit : d[2] # r[2] } \cup hit

\* what the calls share: the call is counted and recorded, with the map and
\* the registry it found and, for addBehavior, the element and definition given
Called(op, arg, what) ==
    /\ nops < MaxOps
    /\ nops' = nops + 1
    /\ last' = [op |-> op, before |-> namespaces, arg |-> arg, what |-> what,
                had |-> behaviors]
    /\ remapped' = remapAfter(op, arg)
    /\ UNCHANGED <<activationVars, callVars, runVars>>

AddBehaviors(bhvs) ==
    LET r == addBehaviors(namespaces, behaviors, bhvs)
    IN /\ Called("addBehaviors", bhvs, null)
       /\ namespaces' = r.namespaces
       /\ behaviors' = r.behaviors
       /\ UNCHANGED <<els, dom, xml, rendered>>

AddBehavior(ns, element, def) ==
    LET r == addBehavior(namespaces, behaviors, ns, element, def)
    IN /\ Called("addBehavior", ns, [element |-> element, def |-> def])
       /\ namespaces' = r.namespaces
       /\ behaviors' = r.behaviors
       /\ UNCHANGED <<els, dom, xml, rendered>>

RemoveBehavior(ns, element) ==
    LET r == removeBehavior(namespaces, behaviors, ns, element)
    IN /\ Called("removeBehavior", ns, [element |-> element, def |-> null])
       /\ namespaces' = r.namespaces
       /\ behaviors' = r.behaviors
       /\ UNCHANGED <<els, dom, xml, rendered>>

UnsetNamespace(ns) ==
    /\ Called("unsetNamespace", ns, null)
    /\ namespaces' = unsetNamespace(namespaces, ns)
    /\ UNCHANGED <<behaviors, els, dom, xml, rendered>>

\* preprocess(XML_dom): the earlier fragment stays with its holder (rendered)
Preprocess(XML_dom) ==
    LET r == preprocess(XML_dom, namespaces)
    IN /\ Called("preprocess", XML_dom, null)
       /\ namespaces' = r.namespaces
       /\ els' = r.els
       /\ dom' = r.dom
       /\ xml' = XML_dom
       /\ rendered' = IF dom = null THEN rendered ELSE Append(rendered, dom)
       /\ UNCHANGED behaviors

NsInit ==
    /\ \E omit \in BOOLEAN :
         /\ namespaces = constructed(omit).namespaces
         /\ behaviors = constructed(omit).behaviors
    /\ els = <<>>
    /\ dom = null
    /\ xml = null
    /\ rendered = <<>>
    /\ last = [op |-> "new", before |-> <<>>, arg |-> <<>>, what |-> null, had |-> <<>>]
    /\ remapped = {}
    /\ nops = 0
    /\ options = [discardContent |-> FALSE, base |-> <<>>, debug |-> FALSE]
    /\ registry = <<>>
    /\ gen = 1
    /\ log = <<>>
    /\ out = null
    /\ clean = null
    /\ call = null
    /\ result = null
    /\ runIdle

NsNext ==
    \/ \E bhvs \in NsBulk : AddBehaviors(bhvs)
    \/ \E ns \in NsArgs, def \in {D1, D2} : AddBehavior(ns, s_x, def)
    \/ \E ns \in NsRemoveArgs : RemoveBehavior(ns, s_x)
    \/ \E ns \in NsUnset : UnsetNamespace(ns)
    \/ \E d \in NsDocs : Preprocess(d)

SpecNS == NsInit /\ [][NsNext]_vars

(***************************************************************************)
(* Properties of the registrar.                                            *)
(***************************************************************************)
RECURSIVE firstSeen(_, _)
\* The namespaces of a sequence of elements, each at its first occurrence
firstSeen(es, seen) ==
    IF es = <<>> THEN seen
    ELSE firstSeen(Tail(es), setAdd(seen, Head(es).ns))

\* The elements of a document in document (pre-order) order, the root first
documentOrder(XML_dom) ==
    <<documentElement(XML_dom)>> \o querySelectorAllStar(documentElement(XML_dom))

RECURSIVE elementPairs(_, _)
\* <<source element, converted element>> for an element and its descendants
elementPairs(el, conv) ==
    <<<<el, conv>>>> \o
    flatten([i \in DOMAIN el.kids |->
               IF isElement(el.kids[i]) THEN elementPairs(el.kids[i], conv.kids[i])
               ELSE <<>>])

documentPairs(XML_dom, fragment) ==
    flatten([i \in DOMAIN XML_dom.kids |->
               IF isElement(XML_dom.kids[i])
               THEN elementPairs(XML_dom.kids[i], fragment.kids[i]) ELSE <<>>])

freshFor(XML_dom, m) ==
    \A e \in Range(documentOrder(XML_dom)) : ~nsHas(m, e.ns)

\* C4: a document whose namespaces are all unknown to the converter gets the
\* prefixes ns1, ns2, ... in the document order (root first) of the first
\* element of each namespace.
C4_PrefixesFollowDocumentOrder ==
    (last.op = "preprocess" /\ freshFor(xml, last.before)) =>
        LET nss == firstSeen(documentOrder(xml), <<>>)
        IN \A k \in DOMAIN nss : nsGet(namespaces, nss[k]) = s_ns \o numStr(k)

\* C5: in every reachable state each namespace of the map has one prefix and
\* no prefix belongs to two namespaces.
C5_PrefixesUnique ==
    \A i, j \in DOMAIN namespaces :
        i # j => /\ namespaces[i][1] # namespaces[j][1]
                 /\ namespaces[i][2] # namespaces[j][2]

\* C6: once a namespace was unset and then registered with an explicit unused
\* prefix p, every element of it converted afterwards has the tag p-localname
\* and the type name p:localName, and no earlier fragment changes.
C6_RemapState ==
    last.op = "preprocess" =>
        \A r \in remapped : \A pr \in Range(documentPairs(xml, dom)) :
            pr[1].ns = r[2] =>
                /\ pr[2].name = r[1] \o s_dash \o toLowerCase(pr[1].name)
                /\ (r[1] \o s_colon \o pr[1].name) \in Range(els)

C6_Remap ==
    /\ [] C6_RemapState
    /\ [][ /\ Len(rendered') >= Len(rendered)
           /\ \A i \in DOMAIN rendered : rendered'[i] = rendered[i]
           /\ (dom' # dom /\ dom # null) => rendered'[Len(rendered')] = dom ]_vars

\* C6 witness: a document converted after a remap of one of its namespaces,
\* an earlier fragment holding an element of that namespace under another tag
C6_Witness ==
    /\ last.op = "preprocess"
    /\ \E r \in remapped :
         /\ \E pr \in Range(documentPairs(xml, dom)) :
              pr[1].ns = r[2] /\ pr[2].name = r[1] \o s_dash \o toLowerCase(pr[1].name)
         /\ \E i \in DOMAIN rendered : \E c \in Range(querySelectorAllStar(rendered[i])) :
              /\ getAttribute(c, s_data_origname) = s_x
              /\ ~startsWith(c.name, r[1] \o s_dash)

\* C10: addBehaviors keeps every binding of the map, and binds a namespace only
\* from a declaration whose namespace was absent and whose prefix was unused.
C10_BulkKeepsBindings ==
    last.op = "addBehaviors" =>
        /\ \A i \in DOMAIN last.before :
             /\ nsHas(namespaces, last.before[i][1])
             /\ nsGet(namespaces, last.before[i][1]) = last.before[i][2]
        /\ \A i \in DOMAIN namespaces :
             ~nsHas(last.before, namespaces[i][1]) =>
                /\ <<namespaces[i][2], namespaces[i][1]>> \in Range(last.arg.namespaces)
                /\ namespaces[i][2] \notin Range(nsValues(last.before))
                /\ \A j \in DOMAIN namespaces :
                     j # i => namespaces[j][2] # namespaces[i][2]

\* C10 witness: a bulk registration that added one declaration and skipped
\* another whose namespace was absent but whose prefix was taken
C10_Witness ==
    /\ last.op = "addBehaviors"
    /\ \E d \in Range(last.arg.namespaces) :
         /\ ~nsHas(last.before, d[2])
         /\ d[1] \in Range(nsValues(last.before))
         /\ ~nsHas(namespaces, d[2])
    /\ \E d \in Range(last.arg.namespaces) :
         ~nsHas(last.before, d[2]) /\ nsHas(namespaces, d[2])

(***************************************************************************)
(* Single calls (SpecCall): one call of template, of the function          *)
(* decorator compiles, of append, or of the end-note behaviour, on an      *)
(* element; of preprocess on a document; of tagName, getOrdinality,        *)
(* copyAndReset or resetAndSerialize.                                      *)
(***************************************************************************)
registrarIdle ==
    /\ rendered = <<>>
    /\ remapped = {}

activationIdle ==
    /\ options = [discardContent |-> FALSE, base |-> <<>>, debug |-> FALSE]
    /\ registry = <<>>
    /\ gen = 1
    /\ log = <<>>
    /\ out = null
    /\ clean = null

s_b_slash == <<"b","/">>
s_n1_n2 == <<"#","n","1"," ","#","n","2">>
s_a_b_xml == <<"a",".","x","m","l"," ","b",".","x","m","l">>
s_http_x_y == <<"h","t","t","p",":","/","/","e","/","x"," ","y">>
s_padded == <<" ","c"," ","d">>
s_one == <<"1">>
s_gloss == <<"g","l","o","s","s">>
s_tei_ref == <<"t","e","i","-","r","e","f">>
s_tei_p == <<"t","e","i","-","p">>

t_at_n == <<"$","@","n">>
t_rw_target == <<"$","r","w","@","t","a","r","g","e","t">>
t_bracket_n == <<"[","$","@","n","]">>
t_first_target == <<"n","=","$","f","i","r","s","t","@","t","a","r","g","e","t">>
t_two == <<"x"," ","$","n","o","r","m","a","l","i","z","e","U","R","I","@","t","a","r",
           "g","e","t"," ","$","@","N",".">>
t_plain == <<"$","5"," ","@","n"," ","$">>
t_tagName == <<"(","$","t","a","g","N","a","m","e","@","n",")">>
t_dom == <<"(","$","d","o","m","@","n",")">>
t_b == <<"<","b",">">>
t_b_close == <<"<","/","b",">">>
sel_n == <<"[","n","]">>
sel_n_1 == <<"[","n","=","1","]">>

Bases == {<<>>, s_b_slash}

Templates ==
    {t_a_open, t_ptr, t_at_n, t_rw_target, t_bracket_n, t_first_target, t_two, t_plain,
     t_tagName, t_dom}

\* Converted elements, with the attributes the templates and the selectors read
ElementOf(name, atts, kids) == Elt(<<>>, name, atts, kids)

AttributeLists ==
    { <<>>,
      << <<s_target, s_n1_n2>> >>,
      << <<s_target, s_a_b_xml>>, <<s_n, s_one>> >>,
      << <<s_target, s_http_x_y>> >>,
      << <<s_n, <<"A",":","b">> >>, <<s_type, s_gloss>> >>,
      << <<s_target, s_padded>>, <<s_n, <<"2">> >> >> }

TemplateCalls ==
    { [fn |-> "template", str |-> str, def |-> null,
       elt |-> ElementOf(s_tei_ref, atts, <<>>), base |-> base, discard |-> FALSE] :
        str \in Templates, atts \in AttributeLists, base \in Bases }

refBehavior == constructed(FALSE).behaviors[s_tei \o s_colon \o s_ref]

RuleLists ==
    { RulesDef(<< <<sel_n, FnDef("userSpan")>>,
                  <<sel_target, TplDef(<<t_lparen, t_rparen>>)>>,
                  <<s_wildcard, FnDef("userNothing")>> >>),
      refBehavior,
      RulesDef(<< <<sel_n_1, RulesDef(<< <<sel_target, FnDef("graphic")>>,
                                         <<s_wildcard, TplDef(<<t_b, t_b_close>>)>> >>)>>,
                  <<s_tei_p, FnDef("userSpan")>>,
                  <<s_wildcard, TplDef(<<>>)>> >>),
      RulesDef(<< <<s_wildcard, TplDef(<<t_lparen>>)>>,
                  <<sel_n, FnDef("userSpan")>> >>),
      RulesDef(<< <<sel_gloss, FnDef("glossList")>>,
                  <<s_tei_ref \o sel_n, RulesDef(<< <<sel_n_1, FnDef("userSpan")>> >>)>>,
                  <<s_wildcard, FnDef("userNothing")>> >>) }

DecoratorCalls ==
    { [fn |-> "decorator", str |-> <<>>, def |-> def,
       elt |-> ElementOf(name, atts, <<Txt(<<"s","e","e">>)>>), base |-> base,
       discard |-> FALSE] :
        def \in RuleLists, name \in {s_tei_ref, s_tei_p}, atts \in AttributeLists,
        base \in Bases }

\* a converted <ptr target="a.xml b.xml" xml:id="1"/>
convertedPtr ==
    ElementOf(s_tei \o s_dash \o s_ptr,
              << <<s_data_origname, s_ptr>>, <<s_target, s_a_b_xml>>, <<s_id, s_one>> >>,
              <<>>)

\* The child nodes of the elements handed to append: none, a text node, a
\* converted ptr before a text node, and a converted ptr inside a converted
\* element without behaviour, which has data-processed or has not
ChildLists ==
    { <<>>,
      << Txt(<<"s","e","e">>) >>,
      << convertedPtr, Txt(<<"x">>) >>,
      << ElementOf(s_tei_p, << <<s_data_origname, s_p>> >>, << convertedPtr >>) >>,
      << ElementOf(s_tei_p, << <<s_data_origname, s_p>>, <<s_data_processed, <<>> >> >>,
                   << convertedPtr >>) >> }

\* this.append(this.decorator(def), elt), discardContent as the converter holds it
AppendCalls ==
    { [fn |-> "append", str |-> <<>>, def |-> def,
       elt |-> ElementOf(s_tei_ref, atts, kids), base |-> s_b_slash,
       discard |-> discard] :
        def \in RuleLists \cup {FnDef("teiHeader"), TplDef(<<t_lparen, t_rparen>>)},
        atts \in AttributeLists \cup { << <<s_data_processed, <<>> >> >> },
        kids \in ChildLists, discard \in BOOLEAN }

s_place == <<"p","l","a","c","e">>
s_end == <<"e","n","d">>
s_tei_note == <<"t","e","i","-","n","o","t","e">>
s_tei_div == <<"t","e","i","-","d","i","v">>

\* Pages with and without an element that matches "ol.notes"
NotePages ==
    { Page(<<>>),
      Page(<< ElementOf(s_ol, << <<s_class, <<"n","o","t","e">> >> >>, <<>>) >>),
      Page(<< ElementOf(s_ol, << <<s_class, s_notes>> >>, <<>>) >>),
      Page(<< ElementOf(s_div, <<>>, <<
                ElementOf(s_ol, << <<s_class, <<"x"," ","n","o","t","e","s">> >> >>, <<
                  ElementOf(s_li, <<>>, <<>>) >>) >>) >>) }

\* The end-note behaviour called on a converted <note place="end">, with and
\* without a page that holds the list of notes, with and without a root element
EndNoteCalls ==
    { [fn |-> "endNote",
       elt |-> ElementOf(s_tei_note, << <<s_data_origname, s_note>>, <<s_place, s_end>> >>,
                         kids),
       env |-> [document |-> page, dom |-> host, noteIndex |-> index]] :
        kids \in ChildLists, page \in NotePages,
        host \in {null, ElementOf(s_tei_div, << <<s_data_origname, s_div>> >>, <<>>)},
        index \in 0..1 }

\* <div><head>t</head><div n="2"><head>u</head><p>x<hi role="q">h</hi></p></div><!--c--></div>
docNested ==
    [kids |-> << Elt(nsTEI, s_div, <<>>, <<
        Elt(nsTEI, s_head, <<>>, << Txt(<<"t">>) >>),
        Elt(nsTEI, s_div, << <<s_n, <<"2">> >> >>, <<
            Elt(nsTEI, s_head, <<>>, << Txt(<<"u">>) >>),
            Elt(nsTEI, s_p, <<>>, <<
                Txt(<<"x">>),
                Elt(nsTEI, <<"h","i">>, << <<s_role, <<"q">> >> >>, << Txt(<<"h">>) >>) >>) >>),
        Comment(<<"c">>) >>) >>]

\* utilities.tagName(name) for names with a prefix, without one, in capitals,
\* and with two colons
TagNameCalls ==
    { [fn |-> "tagName", name |-> name] :
        name \in { s_tei \o s_colon \o s_TEI, s_TEI, s_p, s_teieg \o s_colon \o s_egXML,
                   s_x \o s_colon \o s_y \o s_colon \o s_p, <<>> } }

MaxSiblings == 3

\* The child nodes of a parent: up to MaxSiblings nodes, each a tei-p, a tei-ref
\* or a text node
SiblingLists ==
    UNION { [1..n -> { ElementOf(s_tei_p, <<>>, <<>>), ElementOf(s_tei_ref, <<>>, <<>>),
                       Txt(<<"x">>) }] : n \in 1..MaxSiblings }

\* utilities.getOrdinality(elt, name) and getOrdinality(elt) for an element
\* child of a parent
OrdinalityCalls ==
    { [fn |-> "getOrdinality", kids |-> c[1], i |-> c[2], name |-> c[3]] :
        c \in { d \in SiblingLists \X (1..MaxSiblings) \X {<<>>, s_tei_p, s_tei_ref} :
                  d[2] \in DOMAIN d[1] /\ isElement(d[1][d[2]]) } }

\* copyAndReset(elt) and resetAndSerialize(elt) for the elements append leaves
\* when discardContent is not set
ResetCalls ==
    { [fn |-> fn,
       elt |-> process(c.def, c.elt,
                       Ctx(constructed(FALSE).behaviors, c.base, FALSE, 1)).elt] :
        fn \in {"copyAndReset", "resetAndSerialize"},
        c \in { d \in AppendCalls : ~d.discard } }

\* this.preprocess(XML_dom, null, perElementFn), with and without perElementFn
PreprocessCalls ==
    { [fn |-> "preprocess", XML_dom |-> XML_dom, perElementFn |-> perElementFn] :
        XML_dom \in {docAB, docB, docNested}, perElementFn \in BOOLEAN }

CallInit ==
    /\ namespaces = constructed(FALSE).namespaces
    /\ behaviors = constructed(FALSE).behaviors
    /\ els = <<>>
    /\ dom = null
    /\ xml = null
    /\ registrarIdle
    /\ last = [op |-> "new", before |-> <<>>, arg |-> <<>>]
    /\ nops = 0
    /\ activationIdle
    /\ call \in TemplateCalls \cup DecoratorCalls \cup AppendCalls \cup EndNoteCalls
                \cup PreprocessCalls \cup TagNameCalls
                \cup OrdinalityCalls \cup ResetCalls
    /\ result = null
    /\ runIdle

\* the function of the first rule of the default note behaviour that applies
\* to the element, called on it
CallEndNote ==
    /\ call.fn = "endNote" /\ result = null
    /\ ruleApplies(call.elt, sel_place_end, <<>>)
    /\ result' = endNote(call.elt, call.env)
    /\ UNCHANGED <<converterVars, activationVars, historyVars, call,
                   runVars>>

\* this.preprocess(XML_dom, null, perElementFn): the result holds the calls made
CallPreprocess ==
    /\ call.fn = "preprocess" /\ result = null
    /\ LET r == preprocess(call.XML_dom, namespaces)
       IN /\ namespaces' = r.namespaces
          /\ els' = r.els
          /\ dom' = r.dom
    /\ xml' = call.XML_dom
    /\ result' = [calls |-> preprocessCalls(call.XML_dom, namespaces, call.perElementFn)]
    /\ UNCHANGED <<behaviors, activationVars, historyVars, call, runVars>>

\* utilities.tagName(name)
CallTagName ==
    /\ call.fn = "tagName" /\ result = null
    /\ result' = [string |-> tagName(call.name)]
    /\ UNCHANGED <<converterVars, activationVars, historyVars, call, runVars>>

\* utilities.getOrdinality(elt, name)
CallGetOrdinality ==
    /\ call.fn = "getOrdinality" /\ result = null
    /\ result' = [pos |-> getOrdinality(call.kids, call.i, call.name)]
    /\ UNCHANGED <<converterVars, activationVars, historyVars, call, runVars>>

\* copyAndReset(elt), and resetAndSerialize(elt): the result holds the element
\* as the call leaves it, too
CallReset ==
    /\ call.fn \in {"copyAndReset", "resetAndSerialize"} /\ result = null
    /\ result' = [copy |-> copyAndResetWithSource(call.elt).result,
                  markup |-> IF call.fn = "resetAndSerialize"
                             THEN serialize(copyAndResetWithSource(call.elt).result)
                             ELSE null,
                  elt |-> copyAndResetWithSource(call.elt).n]
    /\ UNCHANGED <<converterVars, activationVars, historyVars, call, runVars>>

\* this.template(str, elt)
CallTemplate ==
    /\ call.fn = "template" /\ result = null
    /\ result' = [string |-> template(call.str, call.elt, call.base)]
    /\ UNCHANGED <<converterVars, activationVars, historyVars, call,
                   runVars>>

\* this.decorator(def).call(this.utilities, elt)
CallDecorator ==
    /\ call.fn = "decorator" /\ result = null
    /\ result' = decorator(call.def, call.elt,
                           Ctx(behaviors, call.base, options.discardContent, gen))
    /\ UNCHANGED <<converterVars, activationVars, historyVars, call,
                   runVars>>

\* this.append(fn, elt) with fn the function decorator compiles: the result
\* holds what fn returned (the element as fn left it, and the content) and the
\* element after append
CallAppend ==
    /\ call.fn = "append" /\ result = null
    /\ result' = [returned |-> IF isProcessed(call.elt) THEN null
                               ELSE decorator(call.def, call.elt,
                                              Ctx(behaviors, call.base, call.discard, gen)),
                  elt |-> process(call.def, call.elt,
                                  Ctx(behaviors, call.base, call.discard, gen)).elt]
    /\ UNCHANGED <<converterVars, activationVars, historyVars, call,
                   runVars>>

CallNext == CallTemplate \/ CallDecorator \/ CallAppend \/ CallEndNote \/ CallPreprocess
              \/ CallTagName \/ CallGetOrdinality \/ CallReset

SpecCall == CallInit /\ [][CallNext]_vars

(***************************************************************************)
(* Properties of the template engine.                                      *)
(***************************************************************************)
RECURSIVE chosenAction(_, _)
\* The action a rule list owes an element: that of the first rule whose selector
\* matches or is the wildcard, found through nested rule lists; null if none
chosenAction(def, elt) ==
    IF def.kind # "rules" THEN (IF def = TplDef(<<>>) THEN null ELSE def)
    ELSE LET hits == { i \in DOMAIN def.rules :
                         matches(elt, def.rules[i][1], <<>>) \/ def.rules[i][1] = s_wildcard }
         IN IF hits = {} THEN null
            ELSE chosenAction(def.rules[CHOOSE i \in hits : \A j \in hits : i <= j][2], elt)

actionsRun(lg) == SelectSeq(lg, LAMBDA e : e.k = "leaf")

\* C7: the function compiled from a rule list runs the action of the first rule,
\* in list order, whose selector matches the element or is "_", and no other
\* action; it runs nothing when no rule applies; nested rule lists likewise.
C7_FirstRuleWins ==
    (call # null /\ call.fn = "decorator" /\ result # null) =>
        LET chosen == chosenAction(call.def, call.elt)
            ran == actionsRun(result.log)
        IN IF chosen = null THEN ran = <<>> /\ result.content = null
           ELSE Len(ran) = 1 /\ ran[1].act = chosen

\* C7's case: an element that two rules of the list apply to, after the call
C7_Witness ==
    /\ call # null /\ call.fn = "decorator" /\ result # null
    /\ Cardinality({ i \in DOMAIN call.def.rules :
                       ruleApplies(call.elt, call.def.rules[i][1], <<>>) }) >= 2
    /\ matches(call.elt, call.def.rules[1][1], <<>>)
    /\ actionsRun(result.log) # <<>>

\* what the claim says of a placeholder: its utility is absent or a utility function
RECURSIVE placeholdersCovered(_)
placeholdersCovered(str) ==
    LET i == nextMatch(str, 1)
    IN i = 0 \/ /\ matchAt(str, i).util \in UtilityFunctions \cup {<<>>}
                /\ placeholdersCovered(SubSeq(str, matchAt(str, i).end + 1, Len(str)))

RECURSIVE interpolated(_, _, _)
\* The fragment with each placeholder replaced as C8 says, the rest unchanged
interpolated(str, elt, base) ==
    LET i == nextMatch(str, 1)
        m == matchAt(str, i)
    IN IF i = 0 THEN str
       ELSE SubSeq(str, 1, i - 1)
            \o (IF ~hasAttributeHTML(elt, m.att) THEN <<>>
                ELSE IF m.util = <<>> THEN getAttributeHTML(elt, m.att)
                ELSE callUtility(m.util, base, getAttributeHTML(elt, m.att)))
            \o interpolated(SubSeq(str, m.end + 1, Len(str)), elt, base)

\* C8: template replaces every placeholder $util@attr of the fragment, also one at
\* its first character: by the attribute's value through the utility, by the raw
\* value when there is no utility, by "" when the element lacks the attribute;
\* the text outside the placeholders is unchanged.
C8_TemplateInterpolates ==
    (call # null /\ call.fn = "template" /\ result # null
       /\ placeholdersCovered(call.str)) =>
        result.string = interpolated(call.str, call.elt, call.base)

\* the values of a space-separated attribute value
values(v) == SelectSeq(split(v, " "), LAMBDA x : x # <<>>)

\* C9: the default ref behaviour, on an element whose target holds several
\* space-separated values, gives a link whose href is the first value only
\* (a relative one rewritten against the base), whatever form the values have.
C9_FirstTargetOnly ==
    (call # null /\ call.fn = "decorator" /\ call.def = refBehavior /\ result # null
       /\ call.elt.name = s_tei_ref
       /\ Len(values(getAttribute(call.elt, s_target))) > 1) =>
        LET v == values(getAttribute(call.elt, s_target))[1]
        IN /\ result.content # null
           /\ result.content.name = <<"a">>
           /\ getAttribute(result.content, <<"h","r","e","f">>)
                = IF isAbsoluteOrFragment(v) THEN v ELSE call.base \o v

(***************************************************************************)
(* Conversion and activation under test: one document is converted, its    *)
(* behaviours are applied by fallback, by the handlers define registers    *)
(* (called by the browser, in any order) or by processElement, and the     *)
(* root is serialized by resetAndSerialize.                                *)
(***************************************************************************)
MaxActivations == 2

s_hi == <<"h","i">>
s_label == <<"l","a","b","e","l">>
s_item == <<"i","t","e","m">>
s_rend == <<"R","e","n","d">>

\* <div xml:id="d"><p>x<ref target="#n1 #n2" xml:id="r">s</ref></p><note/></div>
docRef ==
    [kids |-> << Elt(nsTEI, s_div, << <<s_xml_id, <<"d">> >> >>, <<
        Elt(nsTEI, s_p, <<>>, <<
            Txt(<<"x">>),
            Elt(nsTEI, s_ref, << <<s_target, s_n1_n2>>, <<s_xml_id, <<"r">> >> >>,
                << Txt(<<"s">>) >>) >>),
        Elt(nsTEI, s_note, <<>>, <<>>) >>) >>]

\* <p n="1"><note>n<ptr target="a.xml b.xml"/></note><!--c--><hi Rend="B" role="q">h</hi></p>
docNote ==
    [kids |-> << Elt(nsTEI, s_p, << <<s_n, s_one>> >>, <<
        Elt(nsTEI, s_note, <<>>, <<
            Txt(<<"n">>),
            Elt(nsTEI, s_ptr, << <<s_target, s_a_b_xml>> >>, <<>>) >>),
        Comment(<<"c">>),
        Elt(nsTEI, s_hi, << <<s_rend, <<"B">> >>, <<s_role, <<"q">> >> >>,
            << Txt(<<"h">>) >>) >>) >>]

\* <list type="gloss"><label>l</label><item><graphic url="i.png" width="5"/></item>
\*   <teiHeader><eg xml:id="e">e</eg></teiHeader></list>
docList ==
    [kids |-> << Elt(nsTEI, s_list, << <<s_type, s_gloss>> >>, <<
        Elt(nsTEI, s_label, <<>>, << Txt(<<"l">>) >>),
        Elt(nsTEI, s_item, <<>>, <<
            Elt(nsTEI, s_graphic, << <<s_url, <<"i",".","p","n","g">> >>,
                                     <<s_width, <<"5">> >> >>, <<>>) >>),
        Elt(nsTEI, s_teiHeader, <<>>, <<
            Elt(nsTEI, s_eg, << <<s_xml_id, <<"e">> >> >>, << Txt(<<"e">>) >>) >>) >>) >>]

Docs == {docRef, docNote, docList}

\* Behaviours the caller registers on top of the default ones
userBehaviors ==
    [namespaces |-> << <<s_tei, nsTEI>> >>,
     entries |-> << <<s_tei, << <<s_hi, FnDef("userSpan")>>,
                               <<s_item, FnDef("userNothing")>> >> >> >>]

noBehaviors == [namespaces |-> <<>>, entries |-> <<>>]

context == Ctx(behaviors, options.base, options.discardContent, gen)

\* the paths of the converted elements of this.dom
convertedPaths ==
    IF dom = null THEN {}
    ELSE { p \in elementPaths(dom) : hasAttribute(nodeAt(dom, p), s_data_origname) }

\* domToHTML5 up to applyBehaviors: preprocess(XML_dom)
Convert ==
    /\ dom = null
    /\ LET r == preprocess(xml, namespaces)
       IN /\ namespaces' = r.namespaces
          /\ els' = r.els
          /\ dom' = r.dom
    /\ last' = [op |-> "preprocess", before |-> null, arg |-> <<>>, flagged |-> FALSE]
    /\ UNCHANGED <<behaviors, xml, activationVars, rendered, remapped, nops, callVars,
                   runVars>>

\* resetAndSerialize(root) of the root element of this.dom
ResetAndSerialize ==
    /\ dom # null
    /\ out' = [markup |-> resetAndSerialize(documentElement(dom))]
    /\ clean' = IF nops = 0 THEN out' ELSE clean
    /\ last' = [op |-> "resetAndSerialize", before |-> dom, arg |-> <<>>, flagged |-> FALSE]
    /\ UNCHANGED <<converterVars, options, registry, gen, log, rendered, remapped, nops,
                   callVars, runVars>>

\* what the activations share: the call is counted and recorded
Activated(op, path) ==
    /\ dom # null
    /\ nops < MaxActivations
    /\ nops' = nops + 1
    /\ last' = [op |-> op, before |-> dom, arg |-> path,
                flagged |-> path # <<>> /\ isProcessed(nodeAt(dom, path))]
    /\ UNCHANGED <<namespaces, behaviors, els, xml, options, registry, out, clean,
                   rendered, remapped, callVars, runVars>>

\* applyBehaviors without window.customElements: this.fallback(this.els)
Fallback ==
    /\ Activated("fallback", <<>>)
    /\ LET r == fallback(els, 1, [elt |-> dom, log |-> <<>>], context)
       IN /\ dom' = r.dom
          /\ log' = r.log
          /\ gen' = r.gen

\* applyBehaviors with window.customElements: this.define(this.els)
Define ==
    /\ dom # null
    /\ registry = <<>>
    /\ registry' = define(els, 1, behaviors, options.debug, defining(registry)).registry
    /\ last' = [op |-> "define", before |-> dom, arg |-> <<>>, flagged |-> FALSE]
    /\ UNCHANGED <<converterVars, options, gen, log, out, clean, rendered, remapped, nops,
                   callVars, runVars>>

\* the browser upgrades the element at path: the constructor runs
Upgrade(path) ==
    /\ nodeAt(dom, path).name \in DOMAIN registry
    /\ Activated("constructor", path)
    /\ LET r == upgradeConstructor(registry[nodeAt(dom, path).name], nodeAt(dom, path),
                                   ctxAt(context, dom, path))
       IN /\ dom' = replaceAt(dom, path, r.elt)
          /\ log' = r.log
    /\ gen' = gen + 1

\* the browser connects the element at path
Connected(path) ==
    /\ nodeAt(dom, path).name \in DOMAIN registry
    /\ Activated("connectedCallback", path)
    /\ LET r == connectedCallback(registry[nodeAt(dom, path).name], nodeAt(dom, path),
                                  ctxAt(context, dom, path))
       IN /\ dom' = replaceAt(dom, path, r.elt)
          /\ log' = r.log
    /\ gen' = gen + 1

\* processElement(elt) for the element at path
ProcessElement(path) ==
    /\ Activated("processElement", path)
    /\ LET r == processElement(nodeAt(dom, path), ctxAt(context, dom, path))
       IN /\ dom' = replaceAt(dom, path, r.elt)
          /\ log' = r.log
    /\ gen' = gen + 1

DocInit ==
    /\ \E bhvs \in {noBehaviors, userBehaviors} :
         LET c == constructed(FALSE)
             r == addBehaviors(c.namespaces, c.behaviors, bhvs)
         IN namespaces = r.namespaces /\ behaviors = r.behaviors
    /\ els = <<>>
    /\ dom = null
    /\ xml \in Docs
    /\ options \in [discardContent : BOOLEAN, base : {s_b_slash}, debug : {FALSE}]
    /\ registry = <<>>
    /\ gen = 1
    /\ log = <<>>
    /\ out = null
    /\ clean = null
    /\ registrarIdle
    /\ last = [op |-> "new", before |-> null, arg |-> <<>>, flagged |-> FALSE]
    /\ nops = 0
    /\ call = null
    /\ result = null
    /\ runIdle

DocNext ==
    \/ Convert
    \/ ResetAndSerialize
    \/ Fallback
    \/ Define
    \/ \E path \in convertedPaths : Upgrade(path)
    \/ \E path \in convertedPaths : Connected(path)
    \/ \E path \in convertedPaths : ProcessElement(path)

SpecDoc == DocInit /\ [][DocNext]_vars

(***************************************************************************)
(* Properties of conversion, activation and resetAndSerialize.             *)
(***************************************************************************)
RECURSIVE sourceMarkup(_)
\* The markup of a source element: its name, its attributes, its children
sourceMarkup(el) ==
    <<XmlOpen(el.name, el.atts, Len(el.kids) = 0)>>
    \o flatten([i \in DOMAIN el.kids |->
                  CASE el.kids[i].type = "element" -> sourceMarkup(el.kids[i])
                    [] el.kids[i].type = "comment" -> <<XmlComment(el.kids[i].value)>>
                    [] OTHER -> <<XmlText(el.kids[i].value)>>])
    \o (IF Len(el.kids) > 0 THEN <<XmlClose(el.name)>> ELSE <<>>)

pairs(atts) == { atts[i] : i \in DOMAIN atts }

\* the same elements, names and text in the same order, and per element the
\* same set of attribute name/value pairs
sameMarkup(a, b) ==
    /\ Len(a) = Len(b)
    /\ \A i \in DOMAIN a :
         /\ a[i].t = b[i].t /\ a[i].name = b[i].name /\ a[i].value = b[i].value
         /\ pairs(a[i].atts) = pairs(b[i].atts)

\* C1: resetAndSerialize of the root of a freshly converted tree gives markup
\* with the element names, the set of attribute name/value pairs of each
\* element and the text of the source tree.
C1_RoundTrip ==
    clean # null => sameMarkup(clean.markup, sourceMarkup(documentElement(xml)))

\* C2: resetAndSerialize of the root after behaviours were applied equals
\* resetAndSerialize of the root before they were applied, the content the
\* behaviours added being discarded and the hidden originals read back.
C2_ActivationKeepsReset ==
    (clean # null /\ out # null /\ ~options.discardContent) => out = clean

\* the converted elements of n that have a behaviour and are not flagged
RECURSIVE unflagged(_, _)
unflagged(n, bhvs) ==
    (IF /\ isElement(n) /\ n.gen = 0 /\ hasAttribute(n, s_data_origname)
        /\ hasBehavior(bhvs, bName(n)) /\ ~isProcessed(n)
     THEN {n} ELSE {})
    \cup UNION { unflagged(n.kids[i], bhvs) : i \in DOMAIN n.kids }

\* the behaviour the activation last.op applies to the element e, or null
behaviorOf(e) ==
    IF last.op \in {"constructor", "connectedCallback"} THEN registry[e.name]
    ELSE IF hasAttribute(e, s_data_origname) /\ hasBehavior(behaviors, bName(e))
    THEN behaviors[bName(e)]
    ELSE null

onElement == last.op \in {"constructor", "connectedCallback", "processElement"}

\* C3: on every path that applies a behaviour (the constructor and the
\* connectedCallback of a defined element, fallback, processElement) the
\* behaviour function is called only on an element without data-processed,
\* the element has data-processed afterwards, and an activation of an element
\* that has data-processed applies nothing to it and leaves it as it is.
C3_AppliedOnce ==
    /\ \A i \in DOMAIN log : log[i].k = "call" => ~log[i].flagged
    /\ (onElement /\ last.flagged) =>
         /\ \A i \in DOMAIN log : log[i].at # last.arg
         /\ last.op # "processElement" => dom = last.before /\ log = <<>>
    /\ (onElement /\ behaviorOf(nodeAt(last.before, last.arg)) # null) =>
         isProcessed(nodeAt(dom, last.arg))
    /\ last.op = "fallback" => unflagged(dom, behaviors) = {}

\* C3's case: a behaviour was applied to an element, and then an activation
\* ran on the same element, which has a behaviour and data-processed
C3_Witness ==
    /\ onElement /\ last.flagged
    /\ behaviorOf(nodeAt(last.before, last.arg)) # null
    /\ \E k \in DOMAIN nodeAt(last.before, last.arg).kids :
         nodeAt(last.before, last.arg).kids[k].gen > 0


(***************************************************************************)
(* The registry after a registrar call (SpecNS).                           *)
(***************************************************************************)
\* The prefix a namespace argument names: the string itself, or the prefix of
\* the last declaration
prefixOf(ns) == IF ns.kind = "decl" THEN ns.decl[Len(ns.decl)][1] ELSE ns.prefix

\* <<type name, definition>> for the entries a bulk registration holds under
\* the prefixes of the map m
bulkGives(bhvs, m) ==
    UNION { { <<e[1] \o s_colon \o x[1], x[2]>> : x \in Range(e[2]) } :
            e \in { f \in Range(bhvs.entries) : f[1] \in Range(nsValues(m)) } }

\* <<type name, definition>> for what the last call set
lastSet ==
    IF last.op = "addBehaviors" THEN bulkGives(last.arg, namespaces)
    ELSE IF last.op = "addBehavior"
         THEN { <<prefixOf(last.arg) \o s_colon \o last.what.element, last.what.def>> }
         ELSE {}

\* the type names the last call removed
lastRemoved ==
    IF last.op = "removeBehavior"
    THEN { prefixOf(last.arg) \o s_colon \o last.what.element } ELSE {}

\* C11: after every registrar call, a type name the call set holds the
\* definition the call gave, a type name the call removed is absent, and every
\* other type name holds what it held before the call; a bulk registration
\* sets the entries of exactly the prefixes that are in the namespace map
\* after its declarations.
C11_LastRegistrationWins ==
    last.op # "new" =>
      /\ \A s \in lastSet : s[1] \in DOMAIN behaviors /\ behaviors[s[1]] = s[2]
      /\ \A k \in lastRemoved : k \notin DOMAIN behaviors
      /\ \A k \in (DOMAIN behaviors \cup DOMAIN last.had)
                    \ ({ s[1] : s \in lastSet } \cup lastRemoved) :
            /\ k \in DOMAIN behaviors
            /\ k \in DOMAIN last.had
            /\ behaviors[k] = last.had[k]

\* a bulk registration has replaced a definition that an earlier call gave,
\* and has left out the entries of a prefix that is not in the map
C11_Witness ==
    /\ last.op = "addBehaviors"
    /\ \E s \in lastSet : s[1] \in DOMAIN last.had /\ last.had[s[1]] # s[2]
    /\ \E e \in Range(last.arg.entries) : e[1] \notin Range(nsValues(namespaces))


(***************************************************************************)
(* Properties of append (SpecCall).                                        *)
(***************************************************************************)
RECURSIVE sameButAttributes(_, _)
\* the same node as far as type, name, text and child nodes go
sameButAttributes(a, b) ==
    /\ a.type = b.type /\ a.name = b.name /\ a.value = b.value
    /\ Len(a.kids) = Len(b.kids)
    /\ \A i \in DOMAIN a.kids : sameButAttributes(a.kids[i], b.kids[i])

\* node is the content the behaviour returned
isContent(node, content) == stamp(node, 0) = stamp(content, 0)

\* node is the hidden container of the child nodes kids, in their order
holdsOriginal(node, kids) ==
    /\ isElement(node) /\ node.name = s_cetei_original
    /\ hasAttribute(node, s_hidden) /\ hasAttribute(node, s_data_original)
    /\ Len(node.kids) = Len(kids)
    /\ \A i \in DOMAIN kids : sameButAttributes(node.kids[i], kids[i])

appendRan == call.fn = "append" /\ result # null /\ ~isProcessed(call.elt)

\* C12: append on an unprocessed element whose behaviour returned content
\* leaves the content as the last child; before it there is nothing if
\* discardContent is set, and otherwise one hidden cetei-original with
\* data-original that holds the previous child nodes in their order (no
\* container when there was no child node).  If the behaviour returned nothing
\* the child nodes are those the behaviour left.
C12_ContentContract ==
    appendRan =>
      LET before == result.returned.elt.kids
          content == result.returned.content
          after == result.elt.kids
      IN IF content = null THEN after = before
         ELSE /\ after # <<>>
              /\ isContent(after[Len(after)], content)
              /\ IF call.discard \/ before = <<>> THEN Len(after) = 1
                 ELSE Len(after) = 2 /\ holdsOriginal(after[1], before)

\* content was returned for an element with two child nodes, and
\* discardContent is not set
C12_Witness ==
    /\ appendRan
    /\ result.returned.content # null
    /\ ~call.discard
    /\ Len(result.returned.elt.kids) = 2


(***************************************************************************)
(* Runs of domToHTML5 on one converter instance, statement by statement    *)
(* (CETEI.ts 273-290): preprocess, applyBehaviors, this.done = true, then   *)
(* the callback and the ceteiceanload event, or the event and the return.  *)
(* Between the runs the caller may replace the behaviour of tei:note.      *)
(***************************************************************************)
MaxRuns == 2

\* <p><note>a<note>b</note></note><hi>h</hi><note>c</note></p>
runDocNotes ==
    [kids |-> << Elt(nsTEI, s_p, <<>>, <<
        Elt(nsTEI, s_note, <<>>, <<
            Txt(<<"a">>),
            Elt(nsTEI, s_note, <<>>, << Txt(<<"b">>) >>) >>),
        Elt(nsTEI, s_hi, <<>>, << Txt(<<"h">>) >>),
        Elt(nsTEI, s_note, <<>>, << Txt(<<"c">>) >>) >>) >>]

\* <div><note>d</note><ptr target="a.xml b.xml"/></div>
runDocPtr ==
    [kids |-> << Elt(nsTEI, s_div, <<>>, <<
        Elt(nsTEI, s_note, <<>>, << Txt(<<"d">>) >>),
        Elt(nsTEI, s_ptr, << <<s_target, s_a_b_xml>> >>, <<>>) >>) >>]

RunDocs == {runDocNotes, runDocPtr}

running == call # null /\ call.pc \notin {"returned", "raised"}
event(e, arg) == [e |-> e, arg |-> arg]

\* CETEI.ts 555: the scope of fallback's search
fallbackScope == IF dom # null /\ ~done THEN dom ELSE document

\* domToHTML5(XML_dom, callback): this.preprocess(XML_dom)
RunStart(XML_dom, callback) ==
    /\ ~running
    /\ nops < MaxRuns
    /\ nops' = nops + 1
    /\ LET r == preprocess(XML_dom, namespaces)
       IN /\ namespaces' = r.namespaces
          /\ els' = r.els
          /\ dom' = r.dom
    /\ xml' = XML_dom
    /\ call' = [fn |-> "domToHTML5", callback |-> callback, pc |-> "converted"]
    /\ result' = null
    /\ events' = << event("converted", null) >>
    /\ log' = <<>>
    /\ last' = [op |-> "preprocess", arg |-> XML_dom,
                before |-> [registry |-> registry, dom |-> dom, document |-> document]]
    /\ UNCHANGED <<behaviors, options, registry, gen, out, clean, rendered,
                   remapped, done, document, window>>

\* this.applyBehaviors() (CETEI.ts 522-528): define with window.customElements,
\* fallback without
ApplyBehaviors ==
    /\ running /\ call.pc = "converted"
    /\ IF window = "customElements"
       THEN LET st == define(els, 1, behaviors, options.debug, defining(registry))
            IN /\ registry' = st.registry
               /\ log' = st.console
               /\ call' = [call EXCEPT !.pc = IF st.raised THEN "raised" ELSE "applied"]
               /\ result' = IF st.raised THEN [raised |-> "Error"] ELSE result
               /\ UNCHANGED <<dom, document, gen>>
       ELSE LET r == fallback(els, 1, [elt |-> fallbackScope, log |-> <<>>], context)
            IN /\ dom' = IF dom # null /\ ~done THEN r.dom ELSE dom
               /\ document' = IF dom # null /\ ~done THEN document ELSE r.dom
               /\ log' = r.log
               /\ gen' = r.gen
               /\ call' = [call EXCEPT !.pc = "applied"]
               /\ UNCHANGED <<registry, result>>
    /\ events' = Append(events, event("activated", null))
    /\ last' = [op |-> "applyBehaviors", arg |-> els,
                before |-> [registry |-> registry, dom |-> dom, document |-> document]]
    /\ UNCHANGED <<namespaces, behaviors, els, xml, options, out, clean, rendered,
                   remapped, nops, done, window>>

\* this.done = true
SetDone ==
    /\ running /\ call.pc = "applied"
    /\ done' = TRUE
    /\ call' = [call EXCEPT !.pc = "done"]
    /\ UNCHANGED <<converterVars, activationVars, historyVars, result, document, window,
                   events>>

\* callback(this.dom, this): the caller keeps the fragment or, where no element
\* is upgraded by the insertion, appends it to the page
Callback(attach) ==
    /\ running /\ call.pc = "done" /\ call.callback
    /\ attach => window # "customElements"
    /\ events' = Append(events, event("callback", dom))
    /\ document' = IF attach THEN [document EXCEPT !.kids = @ \o dom.kids] ELSE document
    /\ dom' = IF attach THEN Fragment(<<>>) ELSE dom
    /\ call' = [call EXCEPT !.pc = "called"]
    /\ UNCHANGED <<namespaces, behaviors, els, xml, activationVars, historyVars, result,
                   done, window>>

\* CETEI.ts 281-283 and 285-287: window.dispatchEvent(ceteiceanLoad).  After the
\* callback the test is "if (window)", a ReferenceError where no window is
\* declared; without callback it is "typeof window !== 'undefined'"
Signal ==
    /\ running
    /\ \/ call.pc = "called"
       \/ call.pc = "done" /\ ~call.callback
    /\ IF window = "none"
       THEN IF call.callback
            THEN /\ call' = [call EXCEPT !.pc = "raised"]
                 /\ result' = [raised |-> "ReferenceError"]
                 /\ UNCHANGED events
            ELSE /\ call' = [call EXCEPT !.pc = "signalled"]
                 /\ UNCHANGED <<result, events>>
       ELSE /\ call' = [call EXCEPT !.pc = "signalled"]
            /\ events' = Append(events, event("ceteiceanload", null))
            /\ UNCHANGED result
    /\ UNCHANGED <<converterVars, activationVars, historyVars, done, document, window>>

\* return this.dom without callback; with callback the function ends
Return ==
    /\ running /\ call.pc = "signalled"
    /\ result' = [returned |-> IF call.callback THEN null ELSE dom]
    /\ call' = [call EXCEPT !.pc = "returned"]
    /\ events' = Append(events, event("returned", IF call.callback THEN null ELSE dom))
    /\ UNCHANGED <<converterVars, activationVars, historyVars, done, document, window>>

\* the definition the caller replaces the behaviour of tei:note with
noteReplacement == TplDef(<<t_b, t_b_close>>)

\* addBehavior("tei", "note", def), or addBehaviors({tei: {note: def}}), outside
\* a run: the behaviour of tei:note is replaced
ReplaceBehavior(bulk) ==
    /\ ~running
    /\ behaviors[s_tei \o s_colon \o s_note] # noteReplacement
    /\ LET r == IF bulk
                THEN addBehaviors(namespaces, behaviors,
                                  [namespaces |-> <<>>,
                                   entries |-> << <<s_tei, << <<s_note, noteReplacement>> >> >> >>])
                ELSE addBehavior(namespaces, behaviors,
                                 [kind |-> "prefix", prefix |-> s_tei], s_note,
                                 noteReplacement)
       IN /\ namespaces' = r.namespaces
          /\ behaviors' = r.behaviors
    /\ last' = [op |-> IF bulk THEN "addBehaviors" ELSE "addBehavior", arg |-> s_note,
                before |-> [registry |-> registry, dom |-> dom, document |-> document]]
    /\ UNCHANGED <<els, dom, xml, activationVars, rendered, remapped, nops, callVars,
                   runVars>>

RunInit ==
    /\ namespaces = constructed(FALSE).namespaces
    /\ behaviors = constructed(FALSE).behaviors
    /\ els = <<>>
    /\ dom = null
    /\ xml = null
    /\ options \in [discardContent : {FALSE}, base : {s_b_slash}, debug : BOOLEAN]
    /\ registry = <<>>
    /\ gen = 1
    /\ log = <<>>
    /\ out = null
    /\ clean = null
    /\ registrarIdle
    /\ last = [op |-> "new", before |-> <<>>, arg |-> <<>>]
    /\ nops = 0
    /\ call = null
    /\ result = null
    /\ done = FALSE
    /\ document = Page(<<>>)
    /\ window \in {"none", "plain", "customElements"}
    /\ events = <<>>

RunNext ==
    \/ \E XML_dom \in RunDocs, callback \in BOOLEAN : RunStart(XML_dom, callback)
    \/ ApplyBehaviors
    \/ SetDone
    \/ \E attach \in BOOLEAN : Callback(attach)
    \/ Signal
    \/ Return
    \/ \E bulk \in BOOLEAN : ReplaceBehavior(bulk)

SpecRun == RunInit /\ [][RunNext]_vars


(***************************************************************************)
(* Properties of the runs (SpecRun).                                       *)
(***************************************************************************)
eventNames == [i \in DOMAIN events |-> events[i].e]
runEnded == call # null /\ ~running

\* C13: a run without callback ends by returning the fragment, after the
\* conversion and the activation; a run with a callback ends after the
\* conversion, the activation, one call of the callback with the fragment and
\* then the ceteiceanload event, and returns no fragment.  At no point of a run
\* has the callback been called twice, or before the activation.
C13_RunOrdering ==
    /\ Cardinality({ i \in DOMAIN events : events[i].e = "callback" }) <= 1
    /\ \A i \in DOMAIN events :
         events[i].e = "callback" => i > 1 /\ events[i - 1].e = "activated"
    /\ runEnded /\ ~call.callback =>
         /\ call.pc = "returned"
         /\ result.returned = dom /\ dom.type = "fragment"
         /\ SubSeq(eventNames, 1, 2) = <<"converted", "activated">>
         /\ eventNames[Len(events)] = "returned"
         /\ \A i \in DOMAIN events : events[i].e # "callback"
    /\ runEnded /\ call.callback =>
         /\ call.pc = "returned"
         /\ result.returned = null
         /\ eventNames = <<"converted", "activated", "callback", "ceteiceanload", "returned">>
         /\ events[3].arg.type = "fragment"


defineRan == last.op = "applyBehaviors" /\ window = "customElements"
tagsOf(names) == [i \in DOMAIN names |-> tagName(names[i])]
rejectedTag(tag) == tag \in DOMAIN last.before.registry

\* C14: after define over the names of a document, whatever the host had
\* registered before, no error has left define, every name of the set is
\* registered (the ones the host accepted with the behaviour of the name, or
\* none), and console.log was called for the rejected tags, in their order, if
\* debug is set and not at all otherwise.
C14_ConflictsNotEscalated ==
    defineRan =>
      /\ call.pc # "raised"
      /\ \A i \in DOMAIN els :
           /\ tagName(els[i]) \in DOMAIN registry
           /\ ~rejectedTag(tagName(els[i])) =>
                registry[tagName(els[i])] =
                  IF els[i] \in DOMAIN behaviors THEN behaviors[els[i]] ELSE null
      /\ \A tag \in DOMAIN last.before.registry : registry[tag] = last.before.registry[tag]
      /\ log = IF options.debug THEN SelectSeq(tagsOf(els), rejectedTag) ELSE <<>>

\* define has met a registered tag before a tag that was not registered
C14_Witness ==
    /\ defineRan
    /\ \E i, j \in DOMAIN els :
         /\ i < j
         /\ rejectedTag(tagName(els[i]))
         /\ ~rejectedTag(tagName(els[j]))


(***************************************************************************)
(* Elements of a type without behaviour (SpecDoc).                         *)
(***************************************************************************)
\* a converted element whose type name has no behaviour
missing(e) ==
    isElement(e) /\ hasAttribute(e, s_data_origname) /\ ~hasBehavior(behaviors, bName(e))

\* no element above the path has data-processed: no handler has moved it
freeOfHandlers(root, p) ==
    \A k \in 0..(Len(p) - 1) : ~isProcessed(nodeAt(root, SubSeq(p, 1, k)))

\* the same attributes, and the same child nodes in the same order
keeps(a, b) ==
    /\ a.atts = b.atts
    /\ Len(a.kids) = Len(b.kids)
    /\ \A i \in DOMAIN a.kids :
         /\ a.kids[i].type = b.kids[i].type
         /\ a.kids[i].name = b.kids[i].name
         /\ a.kids[i].value = b.kids[i].value

C16_NoRootRaises ==
    ( /\ call # null /\ call.fn = "endNote" /\ result # null
      /\ notesPaths(call.env.document) = {}
      /\ call.env.dom = null ) =>
        result.raised /\ result.content = null

\* the behaviour has thrown for a note with child nodes
C16_Witness ==
    /\ call # null /\ call.fn = "endNote" /\ result # null
    /\ result.raised
    /\ call.elt.kids # <<>>


\* the namespaces of the elements of a source document
docNamespaces(XML_dom) == { e.ns : e \in Range(querySelectorAllStar(XML_dom)) }

registered(XML_dom, m) == \A ns \in docNamespaces(XML_dom) : nsHas(m, ns)

C17_Unchanged ==
    /\ (last.op = "preprocess" /\ registered(last.arg, last.before)) =>
          namespaces = last.before
    /\ (last.op = "unsetNamespace" /\ ~nsHas(last.before, last.arg)) =>
          namespaces = last.before

\* C17: the conversion of a document whose namespaces are all in the map
\* leaves the map as it is, and so does unsetNamespace of a namespace that is
\* not in the map; a conversion, or an unsetNamespace, that directly follows
\* the same call with the same argument leaves the map as the first call left it.
C17_Idempotent ==
    /\ [] C17_Unchanged
    /\ [][ ( /\ last.op \in {"preprocess", "unsetNamespace"}
             /\ last'.op = last.op
             /\ last'.arg = last.arg ) => namespaces' = namespaces ]_vars

\* a document is converted again: its namespaces are in the map, one of them
\* under a prefix that a conversion gave
C17_Witness ==
    /\ last.op = "preprocess"
    /\ registered(last.arg, last.before)
    /\ namespaces = last.before
    /\ \E ns \in docNamespaces(last.arg) : nsGet(namespaces, ns) = s_ns \o numStr(1)


fallbackRan == last.op = "applyBehaviors" /\ window # "customElements" /\ call.pc = "applied"

\* C18: when the fallback of a run of domToHTML5 has ended, on the first and on
\* every later run of the converter, the elements of the run's fragment that
\* have a behaviour are processed, and the page outside the fragment is as it
\* was before the activation.
C18_FallbackScopeIsFragment ==
    fallbackRan =>
      /\ unflagged(dom, behaviors) = {}
      /\ document = last.before.document


\* path p comes before path q in document order
RECURSIVE before(_, _)
before(p, q) ==
    IF p = <<>> THEN q # <<>>
    ELSE IF q = <<>> THEN FALSE
    ELSE Head(p) < Head(q) \/ (Head(p) = Head(q) /\ before(Tail(p), Tail(q)))

\* the positions in the log of the calls of the behaviour of the elements tag
callsOf(tag) == { i \in DOMAIN log : log[i].k = "call" /\ log[i].tag = tag }

\* C19: in the fallback of a run, the elements of one type are handed to their
\* behaviour in document order, and when the behaviour is called on an element
\* every element of the type it was called on before has data-processed set,
\* nested elements of the type included.
C19_FallbackOrder ==
    fallbackRan =>
      \A i, j \in DOMAIN log :
         (i < j /\ log[i].k = "call" /\ j \in callsOf(log[i].tag)) =>
            /\ before(log[i].at, log[j].at)
            /\ \E f \in i..j : log[f].k = "flag" /\ log[f].at = log[i].at


\* the paths of the elements below e that have a behaviour and no data-processed
pending(e) ==
    { p \in elementPaths(e) :
        /\ hasAttribute(nodeAt(e, p), s_data_origname)
        /\ hasBehavior(behaviors, bName(nodeAt(e, p)))
        /\ ~isProcessed(nodeAt(e, p)) }

templateRan ==
    /\ appendRan
    /\ call.def.kind = "template" /\ call.def.strings # <<>>

\* C20: when append has applied a template behaviour to an element, the
\* behaviour of every element below it, at any depth, that had a behaviour and no
\* data-processed has been called and data-processed has been set on it, also
\* below a child that had data-processed.
C20_TemplateBottomUp ==
    templateRan =>
      \A p \in pending(call.elt) :
         /\ \E i \in DOMAIN result.returned.log :
              result.returned.log[i].k = "call" /\ result.returned.log[i].at = p
         /\ \E i \in DOMAIN result.returned.log :
              result.returned.log[i].k = "flag" /\ result.returned.log[i].at = p

(***************************************************************************)
(* What data-processed tells (SpecCall).                                   *)
(***************************************************************************)
\* the tag names of the elements of e, e included, that have data-processed
flaggedTags(e) ==
    { nodeAt(e, p).name : p \in { q \in {<<>>} \cup elementPaths(e) :
                                     isProcessed(nodeAt(e, q)) } }

\* the tag names of the elements a behaviour function was called on by append
\* on call.elt
calledTags ==
    {call.elt.name}
      \cup { result.returned.log[i].tag :
               i \in { k \in DOMAIN result.returned.log :
                         result.returned.log[k].k = "call" } }

\* C21: after append on an element no part of which had data-processed, an
\* element below it that has a behaviour carries data-processed only if the
\* behaviour of its type has been called on it: no element is flagged without
\* its behaviour having been applied.
C21_FlagMeansApplied ==
    (appendRan /\ flaggedTags(call.elt) = {}) =>
      \A p \in elementPaths(result.elt) :
         LET e == nodeAt(result.elt, p)
         IN ( /\ isProcessed(e)
              /\ hasAttribute(e, s_data_origname)
              /\ hasBehavior(behaviors, bName(e)) )
            => e.name \in calledTags

(***************************************************************************)
(* The role attribute through conversion and serialize (SpecDoc).          *)
(***************************************************************************)
\* the values of the role attributes of a start tag, in their order
roleValues(atts) ==
    LET isRole(a) == a[1] = s_role
        roles == SelectSeq(atts, isRole)
    IN [i \in DOMAIN roles |-> roles[i][2]]

\* C22: serialize of a freshly converted tree writes, for each element, one role
\* attribute with the value of the source element's role attribute when the
\* source element has one, and no role attribute when it has none; the
\* landmark types TEI, body, front, back and div included.
C22_RoleRestored ==
    last.op = "preprocess" =>
      LET written == serialize(documentElement(dom))
          source == sourceMarkup(documentElement(xml))
      IN /\ Len(written) = Len(source)
         /\ \A i \in DOMAIN written :
              written[i].t = "open" => roleValues(written[i].atts) = roleValues(source[i].atts)

(***************************************************************************)
(* Identifiers below the hidden container (SpecCall).                      *)
(***************************************************************************)
\* the elements below n that have the attribute att, as <<path, value>>
carrying(n, att) ==
    { <<p, getAttribute(nodeAt(n, p), att)>> :
        p \in { q \in elementPaths(n) : hasAttribute(nodeAt(n, q), att) } }

\* append has moved the child nodes of the element into the hidden container
hiddenByAppend ==
    /\ appendRan /\ ~call.discard
    /\ result.returned.content # null
    /\ result.returned.elt.kids # <<>>

\* C23: after append has moved the child nodes of an element into the hidden
\* container, no element below the container has an id and each element below
\* it that had an id carries it as data-origid; in copyAndReset of the element
\* each of these elements, at any depth, has its id again and no element has
\* data-origid.
C23_IdRenameRestore ==
    hiddenByAppend =>
      LET moved == result.returned.elt
          hidden == result.elt.kids[1]
          copy == copyAndReset(result.elt)
      IN /\ carrying(hidden, s_id) = {}
         /\ carrying(hidden, s_data_origid) = carrying(moved, s_id)
         /\ carrying(copy, s_id) = carrying(moved, s_id)
         /\ carrying(copy, s_data_origid) = {}

(***************************************************************************)
(* The per-element callback of preprocess (SpecCall).                      *)
(***************************************************************************)
preprocessRan == call.fn = "preprocess" /\ result # null

\* the positions in the calls of preprocess of the calls of kind k for path p
callsAt(k, p) ==
    { i \in DOMAIN result.calls : result.calls[i].k = k /\ result.calls[i].at = p }

\* C24: preprocess with a per-element callback calls it once for each element
\* of the source and for nothing else, with the converted element and the
\* source element; at the call every converted child node of the element has
\* been appended to it, the callback has been called for every element below
\* it, and the element has not yet been appended to its parent.  Without a
\* callback nothing is called.
C24_PerElementCallback ==
    preprocessRan =>
      /\ ~call.perElementFn =>
           \A i \in DOMAIN result.calls : result.calls[i].k # "perElementFn"
      /\ \A i \in DOMAIN result.calls :
           result.calls[i].k = "perElementFn" => result.calls[i].at \in elementPaths(xml)
      /\ call.perElementFn =>
           \A p \in elementPaths(xml) :
              /\ Cardinality(callsAt("perElementFn", p)) = 1
              /\ LET c == CHOOSE i \in callsAt("perElementFn", p) : TRUE
                 IN /\ result.calls[c].el = nodeAt(xml, p)
                    /\ result.calls[c].newElement = nodeAt(dom, p)
                    /\ \A k \in DOMAIN nodeAt(xml, p).kids :
                         \E a \in callsAt("appendChild", Append(p, k)) : a < c
                    /\ \A q \in elementPaths(nodeAt(xml, p)) :
                         \A d \in callsAt("perElementFn", p \o q) : d < c
                    /\ callsAt("appendChild", p) # {}
                    /\ \A a \in callsAt("appendChild", p) : a > c

\* the callback was given for a source with an element three levels down that
\* has child nodes of its own
C24_Witness ==
    /\ preprocessRan /\ call.perElementFn
    /\ \E p \in elementPaths(xml) : Len(p) = 3 /\ nodeAt(xml, p).kids # <<>>
    /\ Len(result.calls) > 8

(***************************************************************************)
(* Tag names (SpecCall).                                                   *)
(***************************************************************************)
s_ceteicean_ == <<"c","e","t","e","i","c","e","a","n","-">>

\* C25: tagName(name) is the name in lower case with its first colon replaced
\* by a dash when the name has a colon, and ceteicean- followed by the name in
\* lower case when it has none.
C25_TagNaming ==
    (call.fn = "tagName" /\ result # null) =>
      result.string =
        IF \E i \in DOMAIN call.name : call.name[i] = ":"
        THEN LET c == CHOOSE i \in DOMAIN call.name :
                        /\ call.name[i] = ":"
                        /\ \A j \in 1..(i - 1) : call.name[j] # ":"
             IN toLowerCase(SubSeq(call.name, 1, c - 1)) \o s_dash
                  \o toLowerCase(SubSeq(call.name, c + 1, Len(call.name)))
        ELSE s_ceteicean_ \o toLowerCase(call.name)

(***************************************************************************)
(* Ordinality (SpecCall).                                                  *)
(***************************************************************************)
\* the positions of the element siblings before the element of the call
precedingElements == { j \in 1..(call.i - 1) : isElement(call.kids[j]) }

\* C26: getOrdinality(elt, name) is 1 plus the number of element siblings before
\* elt whose name is name, wherever they stand among the siblings; with name
\* omitted it is 1 plus the number of all element siblings before elt.
C26_Ordinality ==
    (call.fn = "getOrdinality" /\ result # null) =>
      result.pos =
        1 + Cardinality(IF call.name = <<>> THEN precedingElements
                        ELSE { j \in precedingElements : call.kids[j].name = call.name })

(***************************************************************************)
(* addBehavior with a namespace declaration (SpecNS).                      *)
(***************************************************************************)
\* the behaviours that fallback over names applies to the elements of fragment
\* whose tag is tag
appliedBy(fragment, names, bhvs, tag) ==
    LET lg == fallback(names, 1, [elt |-> fragment, log |-> <<>>],
                       Ctx(bhvs, <<>>, FALSE, 1)).log
    IN { lg[i].act : i \in { k \in DOMAIN lg : lg[k].k = "leaf" /\ lg[k].tag = tag } }

\* C28: when a document is converted right after addBehavior({p: ns}, name, b),
\* activation applies b, and nothing else, to each converted element of the
\* namespace ns with the local name name, whatever prefix ns had before the
\* call.
C28_DeclaredBehaviorReaches ==
    [][ ( /\ last.op = "addBehavior" /\ last.arg.kind = "decl"
          /\ last'.op = "preprocess" ) =>
        \A pr \in Range(documentPairs(xml', dom')) :
           (pr[1].ns = last.arg.decl[1][2] /\ pr[1].name = last.what.element) =>
             appliedBy(dom', els', behaviors', pr[2].name) = {last.what.def} ]_vars

(***************************************************************************)
(* Replaced behaviours (SpecRun).                                          *)
(***************************************************************************)
replaced == behaviors[s_tei \o s_colon \o s_note] = noteReplacement

\* the behaviours the activation of the run has applied to the elements tagged tag
appliedTo(tag) ==
    { log[i].act : i \in { k \in DOMAIN log : log[k].k = "leaf" /\ log[k].tag = tag } }

\* C27: after the behaviour of a type has been replaced, the activation of a
\* run gives the elements of the type the new behaviour: with customElements
\* the handler registered for the tag is the one of the new behaviour, also
\* when an earlier run had registered the tag; without, fallback applies the
\* new behaviour and no other to the elements of the type.
C27_ReplacementTakesEffect ==
    (last.op = "applyBehaviors" /\ replaced /\ s_tei \o s_colon \o s_note \in Range(els)) =>
      IF window = "customElements"
      THEN registry[s_tei_note] = noteReplacement
      ELSE appliedTo(s_tei_note) \subseteq {noteReplacement}

(***************************************************************************)
(* A run with a callback in a host without window (SpecRun).               *)
(***************************************************************************)
\* C29: in a host without window, a run of domToHTML5 with a callback raises
\* no error, and when it has ended it has returned, without a fragment, after
\* one call of the callback.
C29_CallbackWithoutWindow ==
    (call # null /\ call.callback /\ window = "none") =>
      /\ call.pc # "raised"
      /\ runEnded =>
           /\ call.pc = "returned" /\ result.returned = null
           /\ Cardinality({ i \in DOMAIN events : events[i].e = "callback" }) = 1

(***************************************************************************)
(* copyAndReset and the tree it is given (SpecCall).                       *)
(***************************************************************************)
resetRan == call.fn \in {"copyAndReset", "resetAndSerialize"} /\ result # null

\* C30: copyAndReset and resetAndSerialize leave the element they are given as
\* it was, with the attributes (data-processed and data-origid among them), the
\* child nodes and the hidden container of every element below it; the copy is
\* the one copyAndReset gives, and resetAndSerialize gives its markup.
C30_ResetKeepsLiveTree ==
    resetRan =>
      /\ result.elt = call.elt
      /\ result.copy = copyAndReset(call.elt)
      /\ call.fn = "resetAndSerialize" => result.markup = resetAndSerialize(call.elt)

\* the element given has a hidden container that holds an element with
\* data-processed and data-origid, and the copy has the identifier back
C30_Witness ==
    /\ resetRan
    /\ \E i \in DOMAIN call.elt.kids :
         /\ hasAttribute(call.elt.kids[i], s_data_original)
         /\ \E k \in DOMAIN call.elt.kids[i].kids :
              /\ hasAttribute(call.elt.kids[i].kids[k], s_data_origid)
              /\ isProcessed(call.elt.kids[i].kids[k])
    /\ \E j \in DOMAIN result.copy.kids : hasAttribute(result.copy.kids[j], s_id)

=============================================================================
